---- MODULE Spec2Model ----
(***************************************************************************)
(* Verification model of peerz (Kademlia-style overlay): the routing tree  *)
(* (RoutingBin / RoutingZone), the Node liveness machine, the transaction  *)
(* map and the iterative lookups (FindNodes, FindValue, Ping).             *)
(*                                                                         *)
(* Identifiers are KEY_BITS-bit naturals (the code uses 256-bit strings    *)
(* read as big-endian integers); bit 0 is the most significant bit.        *)
(***************************************************************************)
EXTENDS Integers, Sequences, FiniteSets, TLC

\* ------------------------------------------------------------------------
\* Bounds.  The code's values are KEY_BITS = 256, K = 8, B = 5; the model
\* keeps the names and scales the values so that splits down to the full
\* key length, full bins and the extra-depth limit all occur.
\* ------------------------------------------------------------------------
KEY_BITS == 3
K == 2
B == 1
\* largest max_nodes argument tried for closest_to
MaxNodesArg == 3

\* number of distinct nodes (the local one included) that exist in the
\* network: for the routing tree alone, and for the running engine
NumPeers == 6
NumEnginePeers == 3

Ids == 0 .. (2 ^ KEY_BITS - 1)
\* the ids of the existing nodes, spread over the id space
PeerIds == { (3 * i) % (2 ^ KEY_BITS) : i \in 0 .. (NumPeers - 1) }
EnginePeerIds == { (3 * i) % (2 ^ KEY_BITS) : i \in 0 .. (NumEnginePeers - 1) }

\* largest value the statistics counters of a Node are followed to
MaxCount == 2
\* lookup parameters: FindNodes max_concurrency and FindValue max_concurrent
\* (both 3 in the code, below K)
max_concurrency == 1
max_concurrent == 1
\* transaction ages, in timer ticks of one second: timeout(5000), expire(30000)
TimeoutAge == 1
ExpireAge == 3
\* transactions alive at the same time, node triples in one reply, and keys
MaxTx == 1
\* for the lookups followed alone: the queries a lookup may have outstanding
\* (3 in the code) and the node triples of one reply
LookupConcurrency == 2
MaxReplyTriples == 2
MaxListed == 1
\* transaction ids os.urandom(4) draws from when the map alone is followed
MaxLiveTx == 3
MaxTriples == 1
NumKeys == 1
\* DistributedHashtable(published_refresh=600, closest_refresh=300), seconds
published_refresh == 600
closest_refresh == 300
\* seconds between two readings of the clock, the readings of a run, the
\* commands a client sends, and the age (in readings) of a value-table
\* entry loaded from the local store
TimerPeriod == 300
MaxTicks == 2
MaxCommands == 2
MaxStoredAge == 5
\* fragments of the longest message a peer sends, sending peers, source
\* addresses, and the bytes a header may declare beyond those that follow
MaxFragments == 3
NumWirePeers == 1
NumAddrs == 2
MaxExtra == 1

VARIABLES
    nodetree,       \* Engine.nodetree / a RoutingZone root
    tree_op,        \* the last routing-tree call and its outcome
    node,           \* one Node record (liveness machine and counters)
    node_op,        \* the last call made on that record
    peers,          \* liveness of the Node record of each id (engine)
    txmap,          \* TxMap.transactions: txid -> transaction
    hashtable,      \* Engine.hashtable: key id -> <<originator, value>>
    wire,           \* datagrams on their way to the engine's UDP socket
    packed,         \* the message the datagrams on the wire were packed from
    delivered,      \* the contents recv_external passed on from those datagrams
    defrag,         \* Engine.defrag.map: txid -> list of fragments
    endpoints,      \* address of the Node record of each id
    stor_handled,   \* the contents of the STOR messages handle_peer was given
    recv_op,        \* the last recv_external call and its outcome
    running,        \* the run loop: "created", "started", "stopped" or "died"
    raised,         \* the exception that ended the run loop, or "none"
    engine_node,    \* Engine.node.node_id
    commands,       \* the client commands recv_api has taken from the pipe
    replies,        \* the replies written to the pipe: command index and frame
    now,            \* time.time()
    ticked,         \* whether the timer part of run() has run at this time
    next_published_refresh,     \* DistributedHashtable.next_published_refresh
    next_closest_refresh,       \* DistributedHashtable.next_closest_refresh
    store_time,     \* the time field of each value-table entry
    net,            \* a network of engines: node id -> its tree, lookup, client
    net_wire,       \* the datagrams on their way between those engines
    client,         \* where the client thread is in the Network facade
    pipe_in,        \* the pipe, client to engine: the commands not yet read
    pipe_out        \* the pipe, engine to client: signals and reply frames

treevars == <<nodetree, tree_op>>
nodevars == <<node, node_op>>
enginevars == <<peers, txmap, hashtable>>
wirevars == <<wire, packed, delivered, defrag, endpoints, stor_handled, recv_op>>
actorvars == <<running, raised, engine_node, commands, replies, now, ticked,
               next_published_refresh, next_closest_refresh, store_time>>
netvars == <<net, net_wire>>
pipevars == <<client, pipe_in, pipe_out>>
vars == <<nodetree, tree_op, node, node_op, peers, txmap, hashtable,
          wire, packed, delivered, defrag, endpoints, stor_handled, recv_op,
          running, raised, engine_node, commands, replies, now, ticked,
          next_published_refresh, next_closest_refresh, store_time,
          net, net_wire, client, pipe_in, pipe_out>>

\* ------------------------------------------------------------------------
\* Identifier arithmetic (routing.py)
\* ------------------------------------------------------------------------
RECURSIVE Xor(_, _)
Xor(a, b) ==
    IF a = 0 THEN b
    ELSE IF b = 0 THEN a
    ELSE (((a % 2) + (b % 2)) % 2) + 2 * Xor(a \div 2, b \div 2)

distance(node_id1, node_id2) == Xor(node_id1, node_id2)

bit_number(node_id, bit) ==
    IF bit >= KEY_BITS THEN 0
    ELSE (node_id \div (2 ^ (KEY_BITS - 1 - bit))) % 2

\* list.sort(key=distance to target): a stable sort, here by insertion
RECURSIVE InsertByDistance(_, _, _)
InsertByDistance(sorted, x, target_id) ==
    IF sorted = <<>> THEN <<x>>
    ELSE IF distance(x, target_id) < distance(Head(sorted), target_id)
         THEN <<x>> \o sorted
         ELSE <<Head(sorted)>> \o InsertByDistance(Tail(sorted), x, target_id)

RECURSIVE distance_sort(_, _)
distance_sort(lst, target_id) ==
    IF lst = <<>> THEN <<>>
    ELSE InsertByDistance(distance_sort(SubSeq(lst, 1, Len(lst) - 1), target_id),
                          lst[Len(lst)], target_id)

\* Python slice lst[:n]
Take(lst, n) == SubSeq(lst, 1, IF n < 0 THEN 0 ELSE IF n > Len(lst) THEN Len(lst) ELSE n)

SeqToSet(s) == { s[i] : i \in 1 .. Len(s) }

RemoveId(s, x) == SelectSeq(s, LAMBDA y : y # x)

\* ------------------------------------------------------------------------
\* RoutingBin: nodes and replacements are OrderedDicts keyed by node_id,
\* modelled as duplicate-free sequences of ids in insertion order.
\* ------------------------------------------------------------------------
NewBin == [nodes |-> <<>>, replacements |-> <<>>]

get_node_ids(bin) == SeqToSet(bin.nodes)

remaining(bin) == K - Len(bin.nodes)

\* OrderedDict item assignment: an existing key keeps its position
DictSet(od, node_id) == IF node_id \in SeqToSet(od) THEN od ELSE Append(od, node_id)

\* "self.replacements > self.maxsize" compares an OrderedDict with an int;
\* CPython 2 orders every number below every non-number, so it is true
\* whatever the sizes are.
ReplacementsExceedMaxsize(replacements) == TRUE

\* push that never looks at the remaining capacity
push_unchecked(bin, node_id) ==
    [bin EXCEPT !.nodes = DictSet(bin.nodes, node_id)]

push(bin, node_id) ==
    IF remaining(bin) # 0
    THEN [bin EXCEPT !.nodes = DictSet(bin.nodes, node_id)]
    ELSE LET added == Append(RemoveId(bin.replacements, node_id), node_id)
         IN  [bin EXCEPT !.replacements =
                 IF ReplacementsExceedMaxsize(added)
                 THEN SubSeq(added, 1, Len(added) - 1)   \* popitem(): last in
                 ELSE added]

\* pop: popitem(last=True) yields a (key, value) tuple, so "repl.node_id"
\* raises AttributeError after the cache entry has been taken out.
pop(bin, node_id) ==
    IF node_id \notin get_node_ids(bin)
    THEN [bin |-> bin, raised |-> FALSE]
    ELSE IF bin.replacements # <<>>
    THEN [bin |-> [bin EXCEPT !.replacements =
                        SubSeq(bin.replacements, 1, Len(bin.replacements) - 1)],
          raised |-> TRUE]
    ELSE [bin |-> [bin EXCEPT !.nodes = RemoveId(bin.nodes, node_id)],
          raised |-> FALSE]

\* get_closest_to that truncates without sorting
get_closest_to_unsorted(bin, target, max_nodes) ==
    Take(bin.nodes, max_nodes)

get_closest_to(bin, target, max_nodes) ==
    Take(distance_sort(bin.nodes, target), max_nodes)

\* ------------------------------------------------------------------------
\* RoutingZone: a nested record.  children is <<>> ([None, None]) or
\* <<child0, child1>>; routing_bin is <<bin>> or <<>> (None).
\* ------------------------------------------------------------------------
RoutingZone(node_id, depth, prefix) ==
    [node_id |-> node_id, depth |-> depth, prefix |-> prefix,
     routing_bin |-> <<NewBin>>, children |-> <<>>]

is_leaf(zone) == zone.children = <<>>

RECURSIVE get_all_nodes(_)
get_all_nodes(zone) ==
    IF is_leaf(zone) THEN zone.routing_bin[1].nodes
    ELSE get_all_nodes(zone.children[1]) \o get_all_nodes(zone.children[2])

\* _can_split without the local-id / extra-depth condition
_can_split_anywhere(zone) ==
    /\ is_leaf(zone)
    /\ zone.depth < KEY_BITS
    /\ remaining(zone.routing_bin[1]) = 0

_can_split(zone) ==
    /\ is_leaf(zone)
    /\ zone.depth < KEY_BITS
    /\ remaining(zone.routing_bin[1]) = 0
    /\ \/ zone.node_id \in get_node_ids(zone.routing_bin[1])
       \/ zone.depth < B

\* _can_consolidate that asks for fewer than binsize / 2 records
_can_consolidate_below_half(zone) ==
    /\ ~ is_leaf(zone)
    /\ Len(get_all_nodes(zone)) < K \div 2

_can_consolidate(zone) ==
    /\ ~ is_leaf(zone)
    /\ Len(get_all_nodes(zone)) <= K \div 2

RECURSIVE PushAll(_, _)
PushAll(bin, lst) ==
    IF lst = <<>> THEN bin ELSE PushAll(push(bin, Head(lst)), Tail(lst))

_consolidate(zone) ==
    [zone EXCEPT !.routing_bin = <<PushAll(NewBin, get_all_nodes(zone))>>,
                 !.children = <<>>]

RECURSIVE add(_, _)
RECURSIVE AddAll(_, _)
RECURSIVE _split(_)
RECURSIVE _split_lossy(_)

\* redistribution by the bit after the one the zone splits on
RECURSIVE AddAll_next_bit(_, _)
AddAll_next_bit(zone, lst) ==
    IF lst = <<>> THEN zone
    ELSE LET index == bit_number(Head(lst), zone.depth + 1) + 1
         IN  AddAll_next_bit([zone EXCEPT !.children[index] = add(@, Head(lst))],
                             Tail(lst))

\* for x in routing_bin.get_all(): children[bit].add(x)
AddAll(zone, lst) ==
    IF lst = <<>> THEN zone
    ELSE LET index == bit_number(Head(lst), zone.depth) + 1
         IN  AddAll([zone EXCEPT !.children[index] = add(@, Head(lst))], Tail(lst))

\* _split that leaves the oldest record of the bin behind
_split_lossy(zone) ==
    LET withChildren ==
            [zone EXCEPT !.children =
                << RoutingZone(zone.node_id, zone.depth + 1, Append(zone.prefix, 0)),
                   RoutingZone(zone.node_id, zone.depth + 1, Append(zone.prefix, 1)) >>]
        moved == AddAll(withChildren, Tail(zone.routing_bin[1].nodes))
    IN  [moved EXCEPT !.routing_bin = <<>>]

_split(zone) ==
    LET withChildren ==
            [zone EXCEPT !.children =
                << RoutingZone(zone.node_id, zone.depth + 1, Append(zone.prefix, 0)),
                   RoutingZone(zone.node_id, zone.depth + 1, Append(zone.prefix, 1)) >>]
        moved == AddAll(withChildren, zone.routing_bin[1].nodes)
    IN  [moved EXCEPT !.routing_bin = <<>>]

add(zone, node_id) ==
    LET z == IF _can_split(zone) THEN _split(zone) ELSE zone
    IN  IF is_leaf(z)
        THEN [z EXCEPT !.routing_bin[1] = push(@, node_id)]
        ELSE LET index == bit_number(node_id, z.depth) + 1
             IN  [z EXCEPT !.children[index] = add(@, node_id)]

\* remove: the leaf pops the id, then asks its parent to consolidate; the
\* parent's part is done here in the frame of the parent.  The result
\* carries "raised" when RoutingBin.pop raised.
RECURSIVE remove(_, _)
remove(zone, node_id) ==
    IF is_leaf(zone)
    THEN LET r == pop(zone.routing_bin[1], node_id)
         IN  [zone |-> [zone EXCEPT !.routing_bin[1] = r.bin], raised |-> r.raised]
    ELSE LET index == bit_number(node_id, zone.depth) + 1
             r == remove(zone.children[index], node_id)
             z == [zone EXCEPT !.children[index] = r.zone]
         IN  IF is_leaf(zone.children[index]) /\ ~ r.raised /\ _can_consolidate(z)
             THEN [zone |-> _consolidate(z), raised |-> FALSE]
             ELSE [zone |-> z, raised |-> r.raised]

RECURSIVE closest_to(_, _, _)
closest_to(zone, target, max_nodes) ==
    IF is_leaf(zone)
    THEN get_closest_to(zone.routing_bin[1], target, max_nodes)
    ELSE LET index == bit_number(target, zone.depth)
             nodes == closest_to(zone.children[index + 1], target, max_nodes)
         IN  IF Len(nodes) < max_nodes
             THEN nodes \o closest_to(zone.children[(1 - index) + 1], target,
                                      max_nodes - Len(nodes))
             ELSE nodes

RECURSIVE max_depth(_)
max_depth(zone) ==
    IF is_leaf(zone) THEN zone.depth
    ELSE LET a == max_depth(zone.children[1])
             b == max_depth(zone.children[2])
         IN  IF a >= b THEN a ELSE b

\* ------------------------------------------------------------------------
\* Node: the liveness machine (states discovered / verified / failed) and
\* the counters.  A trigger runs the first transition of its table whose
\* source is the current state and whose conditions hold: conditions, then
\* the state change, then the "after" callback.  A trigger with no
\* transition from the current state raises MachineError.
\* ------------------------------------------------------------------------
NewNode ==
    [state |-> "discovered", failures |-> 0]

has_failed(n) == n.failures >= 3

\* response_in with a transition from every state
CanResponseIn_any(n) == TRUE

\* trigger response_in: discovered | verified -> verified, after _response_in
CanResponseIn(n) == n.state \in {"discovered", "verified"}

\* _response_in that leaves the failure counter alone
response_in_keep_failures(n) ==
    IF CanResponseIn(n) THEN [n EXCEPT !.state = "verified"] ELSE n

response_in(n) ==
    IF CanResponseIn(n)
    THEN [n EXCEPT !.state = "verified", !.failures = 0]
    ELSE n                                   \* MachineError, nothing changes

\* trigger timeout: -> failed if has_failed (after _failed); otherwise the
\* state stays and _timeout counts the failure; failed -> failed
timeout(n) ==
    IF n.state \in {"discovered", "verified"}
    THEN IF has_failed(n)
         THEN [n EXCEPT !.state = "failed"]
         ELSE [n EXCEPT !.failures = @ + 1]
    ELSE n

response_out(n) == [n EXCEPT !.failures = 0]

\* ------------------------------------------------------------------------
\* Node specification: one record, every call that can be made on it.
\* consecutive_timeouts counts the timeouts since the last inbound response.
\* ------------------------------------------------------------------------
NodeIdle ==
    /\ node = NewNode @@ [queries_in |-> 0, responses_in |-> 0, queries_out |-> 0,
                          responses_out |-> 0, first_contact |-> FALSE,
                          last_failure |-> FALSE, consecutive_timeouts |-> 0]
    /\ node_op = "init"

NodeResponseIn ==
    /\ node.responses_in < MaxCount
    /\ node' = IF CanResponseIn(node)
               THEN [response_in(node) EXCEPT !.first_contact = TRUE,
                                              !.responses_in = @ + 1,
                                              !.consecutive_timeouts = 0]
               ELSE node
    /\ node_op' = "response_in"
    /\ UNCHANGED <<treevars, enginevars, wirevars, actorvars, netvars, pipevars>>

NodeTimeout ==
    /\ node' = [timeout(node) EXCEPT
                   !.last_failure = @ \/ (node.state # "failed" /\ has_failed(node)),
                   !.consecutive_timeouts = IF @ < 4 THEN @ + 1 ELSE @]
    /\ node_op' = "timeout"
    /\ UNCHANGED <<treevars, enginevars, wirevars, actorvars, netvars, pipevars>>

NodeQueryIn ==
    /\ node.queries_in < MaxCount
    /\ node' = [node EXCEPT !.first_contact = TRUE, !.queries_in = @ + 1]
    /\ node_op' = "query_in"
    /\ UNCHANGED <<treevars, enginevars, wirevars, actorvars, netvars, pipevars>>

NodeQueryOut ==
    /\ node.queries_out < MaxCount
    /\ node' = [node EXCEPT !.queries_out = @ + 1]
    /\ node_op' = "query_out"
    /\ UNCHANGED <<treevars, enginevars, wirevars, actorvars, netvars, pipevars>>

NodeResponseOut ==
    /\ node.responses_out < MaxCount
    /\ node' = [response_out(node) EXCEPT !.responses_out = @ + 1]
    /\ node_op' = "response_out"
    /\ UNCHANGED <<treevars, enginevars, wirevars, actorvars, netvars, pipevars>>

\* ------------------------------------------------------------------------
\* Transactions.  One record shape for every class: target is the lookup
\* target (FindNodes), the key id (FindValue) or the pinged id (Ping);
\* outstanding is the key set of the peer_id -> query time dict; completed
\* counts the runs of the "after" callback of a terminal transition
\* (_completed / _signal_pong / _timeout), i.e. the calls of the callback.
\* ------------------------------------------------------------------------
TxIds == 1 .. MaxTx
\* self.closest[:8]: the literal is the value of K
ClosestLimit == K
verify_limit == 3
KeyIds == { (5 * i + 5) % (2 ^ KEY_BITS) : i \in 0 .. (NumKeys - 1) }
NoValue == "None"
Values == {"", "bar"}

PING == 1
PONG == 2
FNOD == 3
RNOD == 4
FVAL == 5
NODE == 6
RVAL == 8

NewTx(kind, target) ==
    [kind |-> kind, state |-> "initialised", age |-> 0, target |-> target,
     closest |-> <<>>, unqueried |-> <<>>, queried |-> <<>>, outstanding |-> {},
     value |-> NoValue, completed |-> 0, max_concurrency |-> max_concurrency]

is_complete(tx) ==
    CASE tx.kind = "FindNodes" -> tx.state \in {"exhausted", "timedout"}
      [] tx.kind = "FindValue" -> tx.state \in {"found", "exhausted", "timedout"}
      [] OTHER -> tx.state \in {"complete", "timedout"}

get_node_by_id(zone, node_id) == node_id \in SeqToSet(get_all_nodes(zone))

\* --- FindNodes (messaging/discovery.py) ---------------------------------
has_capacity(tx) == Cardinality(tx.outstanding) < tx.max_concurrency

RECURSIVE FindNodes_send_query_all(_)
RECURSIVE FindNodes_send_query(_)
\* _send_query that does not look at the capacity
FindNodes_send_query_all(tx) ==
    IF tx.unqueried # <<>>
    THEN LET peer == Head(tx.unqueried)
         IN  FindNodes_send_query_all([tx EXCEPT !.unqueried = Tail(@),
                                                 !.outstanding = @ \cup {peer},
                                                 !.queried = Append(@, peer)])
    ELSE tx

\* _send_query: while has_capacity() and unqueried
FindNodes_send_query(tx) ==
    IF has_capacity(tx) /\ tx.unqueried # <<>>
    THEN LET peer == Head(tx.unqueried)
         IN  FindNodes_send_query([tx EXCEPT !.unqueried = Tail(@),
                                             !.outstanding = @ \cup {peer},
                                             !.queried = Append(@, peer)])
    ELSE tx

\* __init__: parse_message, then trigger query from initialised
FindNodes_new(tree, target, alpha) ==
    LET closest == closest_to(tree, target, K)
    IN  FindNodes_send_query([NewTx("FindNodes", target) EXCEPT
                                  !.closest = closest, !.unqueried = closest,
                                  !.state = "querying", !.max_concurrency = alpha])

\* with the max_concurrency MessageState.__init__ has by default
FindNodes_init(tree, target) == FindNodes_new(tree, target, max_concurrency)

\* _completed: node.timeout() for every outstanding id found in the tree
FindNodes_completed_peers(tx, tree, ps) ==
    [id \in DOMAIN ps |->
        IF id \in tx.outstanding /\ get_node_by_id(tree, id)
        THEN timeout(ps[id]) ELSE ps[id]]

\* trigger response; raised = MachineError
FindNodes_response(tx) ==
    IF tx.state \notin {"querying", "waiting response"}
    THEN [tx |-> tx, raised |-> TRUE]
    ELSE IF tx.unqueried = <<>> /\ tx.outstanding = {}
    THEN [tx |-> [tx EXCEPT !.state = "exhausted", !.completed = @ + 1],
          raised |-> FALSE]
    ELSE IF has_capacity(tx)
    THEN [tx |-> FindNodes_send_query([tx EXCEPT !.state = "querying"]),
          raised |-> FALSE]
    ELSE [tx |-> tx, raised |-> FALSE]

\* the loop over the triples of a node reply: verify_peer, nodetree.add,
\* and closest.append for ids neither queried nor (before the reply) unqueried
RECURSIVE AddReplied(_, _, _)
AddReplied(tree, tx, content) ==
    IF content = <<>> THEN [tree |-> tree, tx |-> tx]
    ELSE LET n == Head(content)
             known == n \in SeqToSet(tx.queried) \/ n \in SeqToSet(tx.unqueried)
         IN  AddReplied(add(tree, n),
                        IF known THEN tx ELSE [tx EXCEPT !.closest = Append(@, n)],
                        Tail(content))

\* closest that is extended but neither sorted nor cut
ResortClosest_append_only(tx) ==
    [tx EXCEPT !.unqueried =
        SelectSeq(tx.closest, LAMBDA x : x \notin SeqToSet(tx.queried))]

\* distance_sort(closest), closest[:8], unqueried recomputed
ResortClosest(tx) ==
    LET closest == Take(distance_sort(tx.closest, tx.target), ClosestLimit)
    IN  [tx EXCEPT !.closest = closest,
                   !.unqueried =
                       SelectSeq(closest, LAMBDA x : x \notin SeqToSet(tx.queried))]

FindNodes_handle_response(tree, tx, peer, msgtype, content) ==
    LET r == IF msgtype = RNOD
             THEN LET a == AddReplied(tree, tx, content)
                  IN  [tree |-> a.tree, tx |-> ResortClosest(a.tx)]
             ELSE [tree |-> tree, tx |-> tx]
    IN  IF peer \in r.tx.outstanding
        THEN [tree |-> r.tree,
              tx |-> FindNodes_response([r.tx EXCEPT !.outstanding = @ \ {peer}]).tx]
        ELSE r

\* --- FindValue (messaging/hashtable.py) ---------------------------------
FindValue_has_capacity(tx) == Cardinality(tx.outstanding) < max_concurrent

is_found(tx) == tx.value \notin {NoValue, ""}

\* _send_query: unqueried.pop(0) (IndexError on an empty list leaves the
\* transaction as it is), then the nested trigger query from "querying"
RECURSIVE FindValue_send_query(_)
FindValue_send_query(tx) ==
    IF tx.unqueried = <<>> THEN tx
    ELSE LET peer == Head(tx.unqueried)
             sent == [tx EXCEPT !.unqueried = Tail(@),
                                !.outstanding = @ \cup {peer},
                                !.queried = Append(@, peer)]
         IN  IF FindValue_has_capacity(sent) /\ sent.unqueried # <<>>
             THEN FindValue_send_query(sent)
             ELSE IF sent.outstanding # {}
             THEN [sent EXCEPT !.state = "waiting response"]
             ELSE sent

FindValue_init(tree, key) ==
    LET closest == closest_to(tree, key, K)
    IN  FindValue_send_query([NewTx("FindValue", key) EXCEPT
                                  !.closest = closest, !.unqueried = closest,
                                  !.state = "querying"])

FindValue_response(tx) ==
    IF tx.state \notin {"querying", "waiting response"}
    THEN tx                                              \* MachineError
    ELSE IF tx.state = "waiting response" /\ is_found(tx)
    THEN [tx EXCEPT !.state = "found", !.completed = @ + 1]
    ELSE IF tx.unqueried = <<>> /\ tx.outstanding = {}
    THEN [tx EXCEPT !.state = "exhausted", !.completed = @ + 1]
    ELSE IF FindValue_has_capacity(tx)
    THEN FindValue_send_query([tx EXCEPT !.state = "querying"])
    ELSE tx

\* a NODE reply (0x06) raises AttributeError at FindNodes._unpack_response,
\* before the sender is taken out of outstanding
FindValue_handle_response(ht, tx, peer, msgtype, content) ==
    IF msgtype = NODE THEN [hashtable |-> ht, tx |-> tx]
    ELSE LET t1 == IF msgtype = RVAL THEN [tx EXCEPT !.value = content] ELSE tx
             h1 == IF msgtype = RVAL
                   THEN [k \in DOMAIN ht \cup {tx.target} |->
                            IF k = tx.target THEN <<peer, content>> ELSE ht[k]]
                   ELSE ht
         IN  IF peer \in t1.outstanding
             THEN [hashtable |-> h1,
                   tx |-> FindValue_response([t1 EXCEPT !.outstanding = @ \ {peer}])]
             ELSE [hashtable |-> h1, tx |-> t1]

\* --- Ping (messaging/discovery.py) --------------------------------------
\* parse_message: verify_peer, trigger ping (initialised -> waiting response)
Ping_init(peer) ==
    [NewTx("Ping", peer) EXCEPT !.state = "waiting response"]

\* handle_response: a PONG triggers pong (waiting response -> complete)
Ping_handle_response(tx, msgtype) ==
    IF msgtype = PONG /\ tx.state = "waiting response"
    THEN [tx EXCEPT !.state = "complete", !.completed = @ + 1]
    ELSE tx

\* --- trigger timeout: source '*', dest timedout, then the after callback --
Tx_timeout(tx) ==
    [tx EXCEPT !.state = "timedout", !.completed = @ + 1]

Tx_timeout_peers(tx, tree, ps) ==
    CASE tx.kind = "FindNodes" -> FindNodes_completed_peers(tx, tree, ps)
      [] tx.kind = "Ping" ->
            [id \in DOMAIN ps |->
                IF id = tx.target /\ get_node_by_id(tree, id)
                THEN timeout(ps[id]) ELSE ps[id]]
      [] OTHER -> ps

\* ------------------------------------------------------------------------
\* Engine state after reset(): the local node is alone in its tree
\* ------------------------------------------------------------------------
\* the local node's id, RoutingZone(node_id)
LocalIds == {0, 3}

\* Engine.node.node_id
LocalId == CHOOSE id \in LocalIds : \A other \in LocalIds : id <= other

\* generate_random(): the ids the random poll draws from
RandomIds == {5}

EmptyMap == [id \in {} |-> 0]

\* no datagram received yet
WireIdle ==
    /\ wire = {}
    /\ packed = [op |-> "none"]
    /\ delivered = <<>>
    /\ defrag = EmptyMap
    /\ endpoints = [id \in EnginePeerIds |-> 0]
    /\ stor_handled = {}
    /\ recv_op = [op |-> "init"]

\* no network of engines
NetIdle ==
    /\ net = EmptyMap
    /\ net_wire = {}

\* no client thread is followed
PipeIdle ==
    /\ client = "none"
    /\ pipe_in = <<>>
    /\ pipe_out = <<>>

\* the run loop before its first pass
ActorIdle ==
    /\ running = "created"
    /\ raised = "none"
    /\ engine_node = LocalId
    /\ commands = <<>>
    /\ replies = <<>>
    /\ now = 0
    /\ ticked = FALSE
    /\ next_published_refresh = 0
    /\ next_closest_refresh = closest_refresh
    /\ store_time = EmptyMap
    /\ NetIdle
    /\ PipeIdle

EngineIdle ==
    /\ peers = [id \in EnginePeerIds |-> NewNode]
    /\ txmap = EmptyMap
    /\ hashtable = EmptyMap
    /\ WireIdle
    /\ ActorIdle

\* ------------------------------------------------------------------------
\* Routing tree specification: a RoutingZone(node_id) driven by add,
\* remove and closest_to.  tree_op records the last call and what it did.
\* ------------------------------------------------------------------------
RECURSIVE NumZones(_)
NumZones(zone) ==
    IF is_leaf(zone) THEN 1
    ELSE 1 + NumZones(zone.children[1]) + NumZones(zone.children[2])


TreeInit ==
    /\ \E id \in LocalIds : nodetree = RoutingZone(id, 0, <<>>)
    /\ tree_op = [op |-> "init"]
    /\ NodeIdle
    /\ EngineIdle

\* a closest_to result is handed to its caller before the next call
Returned == tree_op.op # "closest_to"

TreeAdd ==
    \E id \in PeerIds :
        /\ Returned
        /\ nodetree' = add(nodetree, id)
        /\ tree_op' = [op |-> "add",
                       split |-> NumZones(nodetree') > NumZones(nodetree),
                       refused |-> {id} \ SeqToSet(get_all_nodes(nodetree'))]
        /\ UNCHANGED <<nodevars, enginevars, wirevars, actorvars, netvars, pipevars>>

TreeRemove ==
    \E id \in PeerIds :
        /\ Returned
        /\ nodetree' = remove(nodetree, id).zone
        /\ tree_op' = [op |-> "remove",
                       consolidated |-> NumZones(nodetree') < NumZones(nodetree)]
        /\ UNCHANGED <<nodevars, enginevars, wirevars, actorvars, netvars, pipevars>>

TreeClosestTo ==
    \E target \in Ids, n \in 1 .. MaxNodesArg :
        /\ Returned
        /\ tree_op' = [op |-> "closest_to", target |-> target, max_nodes |-> n,
                       nodes |-> closest_to(nodetree, target, n)]
        /\ UNCHANGED <<nodetree, nodevars, enginevars, wirevars, actorvars, netvars, pipevars>>

TreeReturn ==
    /\ ~ Returned
    /\ tree_op' = [op |-> "returned"]
    /\ UNCHANGED <<nodetree, nodevars, enginevars, wirevars, actorvars, netvars, pipevars>>

TreeNext == TreeAdd \/ TreeRemove \/ TreeClosestTo \/ TreeReturn

SpecTree == TreeInit /\ [][TreeNext]_vars

\* ------------------------------------------------------------------------
\* Node specification
\* ------------------------------------------------------------------------
TreeIdle ==
    /\ nodetree = RoutingZone(0, 0, <<>>)
    /\ tree_op = [op |-> "init"]

NodeInit == NodeIdle /\ TreeIdle /\ EngineIdle

NodeNext ==
    NodeResponseIn \/ NodeTimeout \/ NodeQueryIn \/ NodeQueryOut \/ NodeResponseOut

SpecNode == NodeInit /\ [][NodeNext]_vars

\* ------------------------------------------------------------------------
\* Engine specification: the run loop's datagram handler and timer tick,
\* and the creation of transactions by the scheduled tasks
\* ------------------------------------------------------------------------
\* a Node object that is not held by the tree is made anew by verify_peer
Liveness(ps, tree) ==
    LET held == SeqToSet(get_all_nodes(tree))
    IN  [id \in EnginePeerIds |-> IF id \in held THEN ps[id] ELSE NewNode]

MapSet(map, key, val) ==
    [k \in DOMAIN map \cup {key} |-> IF k = key THEN val ELSE map[k]]

\* TxMap.timeout(age): tx.timeout() for every transaction older than age
RECURSIVE TimeoutPeers(_, _, _, _)
TimeoutPeers(map, ids, tree, ps) ==
    IF ids = {} THEN ps
    ELSE LET id == CHOOSE x \in ids : TRUE
         IN  TimeoutPeers(map, ids \ {id}, tree, Tx_timeout_peers(map[id], tree, ps))

TxMap_timeout(map, age, tree, ps) ==
    LET old == { id \in DOMAIN map : map[id].age > age }
    IN  [txmap |-> [id \in DOMAIN map |->
                        IF id \in old THEN Tx_timeout(map[id]) ELSE map[id]],
         peers |-> TimeoutPeers(map, old, tree, ps)]

\* expire that drops what the timeout sweep has just handled
TxMap_expire_any(map, age) ==
    [id \in { x \in DOMAIN map : map[x].age <= TimeoutAge } |-> map[id]]

\* TxMap.expire(age)
TxMap_expire(map, age) ==
    [id \in { x \in DOMAIN map : ~(map[x].age > age) } |-> map[id]]

next_txid_any(ids, map) == ids

\* TxMap.next_txid: os.urandom(4), drawn from ids, is drawn again while it
\* is in the map; any id that is not live can be the result
next_txid(ids, map) == ids \ DOMAIN map

EngineInit ==
    /\ nodetree = add(RoutingZone(LocalId, 0, <<>>), LocalId)
    /\ tree_op = [op |-> "init"]
    /\ NodeIdle
    /\ EngineIdle

\* poll_neighbours: TxMap.create(FindNodes, [own id])
poll_neighbours ==
    \E txid \in next_txid(TxIds, txmap) :
        /\ txmap' = MapSet(txmap, txid, FindNodes_init(nodetree, nodetree.node_id))
        /\ UNCHANGED <<treevars, nodevars, peers, hashtable, wirevars, actorvars, netvars, pipevars>>

\* poll_random: TxMap.create(FindNodes, [generate_random()])
poll_random ==
    \E txid \in next_txid(TxIds, txmap), target \in RandomIds :
        /\ txmap' = MapSet(txmap, txid, FindNodes_init(nodetree, target))
        /\ UNCHANGED <<treevars, nodevars, peers, hashtable, wirevars, actorvars, netvars, pipevars>>

\* TxMap.create(FindValue, [key, context])
CreateFindValue ==
    \E txid \in next_txid(TxIds, txmap), key \in KeyIds :
        /\ txmap' = MapSet(txmap, txid, FindValue_init(nodetree, key))
        /\ UNCHANGED <<treevars, nodevars, peers, hashtable, wirevars, actorvars, netvars, pipevars>>

\* verify_peers: a Ping for each of up to verify_limit discovered nodes, in
\* shuffled order
verify_peers ==
    LET discovered == { id \in SeqToSet(get_all_nodes(nodetree)) :
                            peers[id].state = "discovered" }
        queried == IF Cardinality(discovered) < verify_limit
                   THEN Cardinality(discovered) ELSE verify_limit
    IN  /\ queried > 0
        /\ \E ids \in SUBSET discovered, txids \in SUBSET (next_txid(TxIds, txmap)) :
              /\ Cardinality(ids) = queried
              /\ Cardinality(txids) = queried
              /\ \E assign \in [txids -> ids] :
                    /\ { assign[t] : t \in txids } = ids
                    /\ txmap' = [t \in DOMAIN txmap \cup txids |->
                                    IF t \in txids THEN Ping_init(assign[t])
                                    ELSE txmap[t]]
        /\ UNCHANGED <<treevars, nodevars, peers, hashtable, wirevars, actorvars, netvars, pipevars>>

\* the content of a reply, as far as its handler reads it: the ids of the
\* triples of a RNOD for FindNodes, the value of a RVAL for FindValue
Contents(txid, msgtype) ==
    IF txid \notin DOMAIN txmap THEN {<<>>}
    ELSE IF txmap[txid].kind = "FindNodes" /\ msgtype = RNOD
    THEN UNION { [1 .. n -> EnginePeerIds] : n \in 0 .. MaxTriples }
    ELSE IF txmap[txid].kind = "FindValue" /\ msgtype = RVAL
    THEN Values
    ELSE {<<>>}

\* recv_external, a response (even msgtype): nodetree.add(peer),
\* peer.response_in(), tx.handle_response; an exception ends the handler
\* and keeps what was done before it
handle_external_response(peer, txid, msgtype, content) ==
    \E tree1 \in {add(nodetree, peer)} :
        LET ps1 == [peers EXCEPT ![peer] = response_in(@)]
            tx == txmap[txid]
        IN  /\ IF ~CanResponseIn(peers[peer])
               THEN /\ nodetree' = tree1
                    /\ peers' = Liveness(peers, tree1)
                    /\ UNCHANGED <<txmap, hashtable>>
               ELSE IF txid \notin DOMAIN txmap
               THEN /\ nodetree' = tree1
                    /\ peers' = Liveness(ps1, tree1)
                    /\ UNCHANGED <<txmap, hashtable>>
               ELSE IF tx.kind = "FindNodes"
               THEN \E r \in {FindNodes_handle_response(tree1, tx, peer, msgtype, content)} :
                        /\ nodetree' = r.tree
                        /\ peers' = Liveness(ps1, r.tree)
                        /\ txmap' = [txmap EXCEPT ![txid] = r.tx]
                        /\ UNCHANGED hashtable
               ELSE IF tx.kind = "FindValue"
               THEN \E r \in {FindValue_handle_response(hashtable, tx, peer, msgtype, content)} :
                        /\ nodetree' = tree1
                        /\ peers' = Liveness(ps1, tree1)
                        /\ txmap' = [txmap EXCEPT ![txid] = r.tx]
                        /\ hashtable' = r.hashtable
               ELSE /\ nodetree' = tree1
                    /\ peers' = Liveness(ps1, tree1)
                    /\ txmap' = [txmap EXCEPT ![txid] = Ping_handle_response(tx, msgtype)]
                    /\ UNCHANGED hashtable

RecvResponseFrom(peer, txid, msgtype, content) ==
    /\ handle_external_response(peer, txid, msgtype, content)
    /\ UNCHANGED <<tree_op, nodevars, wirevars, actorvars, netvars, pipevars>>

RecvResponse ==
    \E peer \in EnginePeerIds, txid \in TxIds, msgtype \in {PONG, RNOD, NODE, RVAL} :
    \E content \in Contents(txid, msgtype) :
        RecvResponseFrom(peer, txid, msgtype, content)

\* recv_external, a query (odd msgtype): nodetree.add(peer), peer.query_in(),
\* handle_peer; the reply goes through send_external -> peer.response_out().
\* A FVAL for a key that is not stored raises AttributeError before the reply.
RecvQuery ==
    \E peer \in EnginePeerIds, msgtype \in {PING, FNOD, FVAL} :
    \E key \in IF msgtype = FVAL THEN KeyIds ELSE {0} :
    \E tree1 \in {add(nodetree, peer)} :
        LET replied == msgtype # FVAL \/ key \in DOMAIN hashtable
        IN  /\ nodetree' = tree1
            /\ peers' = Liveness(IF replied
                                 THEN [peers EXCEPT ![peer] = response_out(@)]
                                 ELSE peers, tree1)
            /\ UNCHANGED <<tree_op, nodevars, txmap, hashtable, wirevars, actorvars, netvars, pipevars>>

\* the once-a-second part of run(): txmap.timeout(5000); txmap.expire(30000)
Tick ==
    LET aged == [id \in DOMAIN txmap |-> [txmap[id] EXCEPT !.age = @ + 1]]
    IN  /\ txmap # EmptyMap
        /\ \E swept \in {TxMap_timeout(aged, TimeoutAge, nodetree, peers)} :
              /\ txmap' = TxMap_expire(swept.txmap, ExpireAge)
              /\ peers' = swept.peers
        /\ UNCHANGED <<treevars, nodevars, hashtable, wirevars, actorvars, netvars, pipevars>>

EngineNext ==
    \/ poll_neighbours
    \/ poll_random
    \/ CreateFindValue
    \/ verify_peers
    \/ RecvResponse
    \/ RecvQuery
    \/ Tick

SpecEngine == EngineInit /\ [][EngineNext]_vars

\* ------------------------------------------------------------------------
\* Reap specification: the Discovery service with its reap sweep
\* ------------------------------------------------------------------------
RECURSIVE reap_first_only(_, _, _)
\* a sweep that ends at the first failed record
reap_first_only(tree, lst, ps) ==
    IF lst = <<>> THEN tree
    ELSE IF ps[Head(lst)].state = "failed"
    THEN remove(tree, Head(lst)).zone
    ELSE reap_first_only(tree, Tail(lst), ps)

\* the loop of reap_peers over the list get_all_nodes() returned:
\* nodetree.remove(x) for every x that is_failed()
RECURSIVE reap(_, _, _)
reap(tree, lst, ps) ==
    IF lst = <<>> THEN tree
    ELSE IF ps[Head(lst)].state = "failed"
    THEN reap(remove(tree, Head(lst)).zone, Tail(lst), ps)
    ELSE reap(tree, Tail(lst), ps)

\* Discovery.reap_peers, every reap_poll seconds
reap_peers ==
    \E tree1 \in {reap(nodetree, get_all_nodes(nodetree), peers)} :
        /\ nodetree' = tree1
        /\ peers' = Liveness(peers, tree1)
        /\ UNCHANGED <<tree_op, nodevars, txmap, hashtable, wirevars, actorvars,
                       netvars, pipevars>>

ReapNext ==
    \/ poll_neighbours
    \/ poll_random
    \/ verify_peers
    \/ RecvResponse
    \/ RecvQuery
    \/ Tick
    \/ reap_peers

SpecReap == EngineInit /\ [][ReapNext]_vars

\* ------------------------------------------------------------------------
\* Lookup specification: FindNodes lookups that may have several queries
\* outstanding, and node replies that list several nodes
\* ------------------------------------------------------------------------
\* the bodies of the node replies: up to MaxReplyTriples ids, in any order,
\* repeated or not
ReplyContents == UNION { [1 .. n -> EnginePeerIds] : n \in 0 .. MaxReplyTriples }

\* TxMap.create(FindNodes, ...) by poll_neighbours or poll_random
LookupCreate ==
    \E txid \in next_txid(TxIds, txmap), target \in {nodetree.node_id} \cup RandomIds :
        /\ txmap' = MapSet(txmap, txid,
                           FindNodes_new(nodetree, target, LookupConcurrency))
        /\ UNCHANGED <<treevars, nodevars, peers, hashtable, wirevars, actorvars,
                       netvars, pipevars>>

\* recv_external on a RNOD datagram
LookupResponse ==
    \E peer \in EnginePeerIds, txid \in DOMAIN txmap, content \in ReplyContents :
        RecvResponseFrom(peer, txid, RNOD, content)

LookupNext == LookupCreate \/ LookupResponse \/ Tick

SpecLookup == EngineInit /\ [][LookupNext]_vars

\* ------------------------------------------------------------------------
\* Transaction map specification: the creates of the scheduled tasks and the
\* timer's timeout and expiry sweeps, with several transactions alive
\* ------------------------------------------------------------------------
LiveTxIds == 1 .. MaxLiveTx

\* TxMap.create as the scheduled tasks call it: a FindNodes for the own id
\* (poll_neighbours) or a random id (poll_random), a Ping to a discovered
\* record (verify_peers)
TxMapCreate ==
    \E txid \in next_txid(LiveTxIds, txmap) :
    \E tx \in { FindNodes_init(nodetree, target) :
                    target \in {nodetree.node_id} \cup RandomIds }
              \cup { Ping_init(id) :
                        id \in { x \in SeqToSet(get_all_nodes(nodetree)) :
                                    peers[x].state = "discovered" } } :
        /\ txmap' = MapSet(txmap, txid, tx)
        /\ UNCHANGED <<treevars, nodevars, peers, hashtable, wirevars, actorvars, netvars, pipevars>>

TxMapNext == TxMapCreate \/ Tick

SpecTxMap == EngineInit /\ [][TxMapNext]_vars

\* the engine with the Discovery service alone
DiscoveryNext ==
    \/ poll_neighbours
    \/ poll_random
    \/ verify_peers
    \/ RecvResponse
    \/ RecvQuery
    \/ Tick

SpecDiscovery == EngineInit /\ [][DiscoveryNext]_vars

\* ------------------------------------------------------------------------
\* Transport (transport.py): the packet and payload headers, fragmentation
\* and the fragment table.  A byte string is a sequence of 0 .. 255.
\* ------------------------------------------------------------------------
OPTION_PLAIN == 1
OPTION_CURVE == 2
STOR == 9
\* '!32sB': the sender's id and the mode
NODE_ID_LEN == 32
PACKET_HEADER_LEN == 33
\* '!4sBBBH': txid, msgtype, fragment, lastfrag, content length
TXID_LEN == 4
PAYLOAD_HEADER_LEN == 9
\* the size Packet.unpack compares the datagram with
MIN_PACKET_LEN == 36
\* Payload.MAX_FRAGMENT
MAX_FRAGMENT == 1100
\* len(sha256 digest), asserted by handle_peer for a FVAL
DIGEST_LEN == 32

\* struct.pack of an unsigned field of width bytes, network byte order
RECURSIVE struct_pack(_, _)
struct_pack(n, width) ==
    IF width = 0 THEN <<>>
    ELSE struct_pack(n \div 256, width - 1) \o <<n % 256>>

\* struct.unpack of an unsigned field
RECURSIVE struct_unpack(_)
struct_unpack(bytes) ==
    IF bytes = <<>> THEN 0
    ELSE struct_unpack(SubSeq(bytes, 1, Len(bytes) - 1)) * 256 + bytes[Len(bytes)]

\* a Python slice bytes[from:to] (0-based, to exclusive, cut at the end)
Slice(bytes, from, to) ==
    SubSeq(bytes, from + 1, IF to > Len(bytes) THEN Len(bytes) ELSE to)

\* Packet.msg: the header followed by the payload
Packet_msg(node_id, mode, payload) ==
    struct_pack(node_id, NODE_ID_LEN) \o <<mode>> \o payload

\* Packet.unpack: the size test compares a str with an int, which is never
\* true in Python 2; struct.unpack raises on fewer than 33 bytes
Packet_unpack(msg) ==
    IF Len(msg) < PACKET_HEADER_LEN
    THEN [raised |-> TRUE]
    ELSE [raised |-> FALSE,
          node_id |-> struct_unpack(Slice(msg, 0, NODE_ID_LEN)),
          mode |-> msg[PACKET_HEADER_LEN],
          payload |-> Slice(msg, PACKET_HEADER_LEN, Len(msg))]

\* the 9-byte fragment header
Payload_header(txid, msgtype, fragment, lastfrag, length) ==
    struct_pack(txid, TXID_LEN) \o <<msgtype, fragment, lastfrag>>
        \o struct_pack(length, 2)

\* Payload.pack: lastfrag = floor(len / MAX_FRAGMENT); full parts while more
\* than MAX_FRAGMENT bytes remain, then the rest as the final fragment
Payload_pack(txid, msgtype, content) ==
    LET lastfrag == Len(content) \div MAX_FRAGMENT
        RECURSIVE Parts(_, _)
        Parts(fragment, rest) ==
            IF Len(rest) > MAX_FRAGMENT
            THEN <<Payload_header(txid, msgtype, fragment, lastfrag, MAX_FRAGMENT)
                       \o Slice(rest, 0, MAX_FRAGMENT)>>
                     \o Parts(fragment + 1, Slice(rest, MAX_FRAGMENT, Len(rest)))
            ELSE <<Payload_header(txid, msgtype, fragment, lastfrag, Len(rest))
                       \o rest>>
    IN  Parts(0, content)

\* Payload.unpack: struct.unpack raises on fewer than 9 bytes; the content
\* is the slice payload[9 : content_length + 9]
Payload_unpack(payload) ==
    IF Len(payload) < PAYLOAD_HEADER_LEN
    THEN [raised |-> TRUE]
    ELSE LET length == struct_unpack(Slice(payload, 7, 9))
         IN  [raised |-> FALSE,
              txid |-> struct_unpack(Slice(payload, 0, TXID_LEN)),
              msgtype |-> payload[5],
              fragment |-> payload[6],
              lastfrag |-> payload[7],
              content_length |-> length,
              content |-> Slice(payload, PAYLOAD_HEADER_LEN,
                                length + PAYLOAD_HEADER_LEN)]

\* DefragMap.get_msg: an unfragmented message is returned as it is; for any
\* other fragment the call self.map.set_default raises AttributeError (a
\* dict has setdefault), so the table is never written
DefragMap_get_msg(map, txid, fragid, maxfrag, fragment) ==
    IF fragid = 0 /\ maxfrag = 0
    THEN [raised |-> FALSE, map |-> map, msg |-> <<fragment>>]
    ELSE [raised |-> TRUE, map |-> map, msg |-> <<>>]

\* --- nacl Box (engine.py encrypt / decrypt) --------------------------------
\* the key shared by the two ends of a Box
Box(secret_of, public_of) == (secret_of + public_of + 1) % 256

\* the authenticator of a ciphertext under a key
Box_tag(key, cipher) ==
    (key + Len(cipher)
         + (IF cipher = <<>> THEN 0 ELSE cipher[1] + cipher[Len(cipher)])) % 256

\* Engine.encrypt as run by the sender: authenticator, then ciphertext
encrypt(sender, peer_id, msg) ==
    LET key == Box(sender, peer_id)
        cipher == [i \in 1 .. Len(msg) |-> (msg[i] + key) % 256]
    IN  <<Box_tag(key, cipher)>> \o cipher

\* Engine.decrypt: Box.decrypt raises CryptoError unless the authenticator
\* matches
decrypt(receiver, peer_id, msg) ==
    LET key == Box(receiver, peer_id)
        cipher == Slice(msg, 1, Len(msg))
    IN  IF msg = <<>> \/ msg[1] # Box_tag(key, cipher)
        THEN [raised |-> TRUE]
        ELSE [raised |-> FALSE,
              msg |-> [i \in 1 .. Len(cipher) |-> (cipher[i] + 256 - key) % 256]]

\* --- hashing (routing.py) --------------------------------------------------
\* id_for_key: the SHA-256 digest of the key, 32 bytes.  SHA-256 is taken to
\* be free of collisions: the digest is the length and the bytes of the
\* input, zero-filled (every hashed input is shorter than 32 bytes).
id_for_key(key) ==
    [i \in 1 .. DIGEST_LEN |->
        IF i = 1 THEN Len(key) ELSE IF i - 1 <= Len(key) THEN key[i - 1] ELSE 0]

\* StoreValue._pack_request: the raw key followed by the content
StoreValue_pack_request(key, content) == key \o content

\* ------------------------------------------------------------------------
\* Datagram specification: peers pack messages with Payload.pack and
\* Packet.msg, the network hands the datagrams over in any order, and the
\* engine runs recv_external on each; damaged datagrams arrive as well.
\* No transaction is open, so a response finds no handler.
\* ------------------------------------------------------------------------
\* the peers that send, and the addresses a datagram can come from
WirePeerIds == { (3 * i) % (2 ^ KEY_BITS) : i \in 1 .. NumWirePeers }
Addrs == 1 .. NumAddrs

\* content lengths around the multiples of MAX_FRAGMENT
ContentLens ==
    { len \in { k * MAX_FRAGMENT + d : k \in 0 .. MaxFragments - 1, d \in {-1, 0, 1} } :
        len >= 0 }

\* a content of the given length whose bytes differ from place to place
Filler(len) == [i \in 1 .. len |-> (7 * i) % 256]

\* "foo" and the values published under it
WireKeys == {<<102, 111, 111>>}
WireValues == {<<>>, <<98, 97, 114>>}

\* the (msgtype, content) pairs a peer sends
WireMessages ==
    { <<PING, Filler(len)>> : len \in ContentLens }
    \cup { <<PONG, <<>> >> }
    \cup { <<STOR, StoreValue_pack_request(k, v)>> : k \in WireKeys, v \in WireValues }
    \cup { <<FVAL, id_for_key(k)>> : k \in WireKeys }
    \cup { <<FVAL, id_for_key(StoreValue_pack_request(k, v))>> :
              k \in WireKeys, v \in WireValues }

\* send_external as run by a peer: one datagram per fragment
Datagrams(peer, mode, txid, msgtype, content) ==
    LET fragments == Payload_pack(txid, msgtype, content)
    IN  { Packet_msg(peer, mode,
                     IF mode = OPTION_CURVE
                     THEN encrypt(peer, LocalId, fragments[i])
                     ELSE fragments[i]) : i \in 1 .. Len(fragments) }

\* datagrams cut short, with a wrong authenticator, or whose header declares
\* more content than follows it
ShortDatagrams ==
    { Slice(Packet_msg(peer, OPTION_PLAIN, Payload_pack(1, PING, <<>>)[1]), 0, len) :
        peer \in WirePeerIds, len \in {0, NODE_ID_LEN, PACKET_HEADER_LEN, MIN_PACKET_LEN - 1} }

ForgedDatagrams ==
    { Packet_msg(peer, OPTION_CURVE,
                 encrypt((peer + 1) % 256, LocalId, Payload_pack(1, m[1], m[2])[1])) :
        peer \in WirePeerIds, m \in { w \in WireMessages : Len(w[2]) < MAX_FRAGMENT } }

OverlongDatagrams ==
    { Packet_msg(peer, OPTION_PLAIN,
                 Payload_header(1, m[1], 0, 0, Len(m[2]) + extra) \o m[2]) :
        peer \in WirePeerIds, extra \in 1 .. MaxExtra,
        m \in { w \in WireMessages : w[1] \in {PING, STOR} /\ Len(w[2]) < MAX_FRAGMENT } }

\* verify_peer that gives every id it is asked about an address in the tree
verify_peer_any(tree, eps, addr, node_id) == [eps EXCEPT ![node_id] = addr]

\* Engine.verify_peer: the record held by the tree takes the datagram's
\* address; an unknown id gets a new record with that address
verify_peer(tree, eps, addr, node_id) ==
    IF get_node_by_id(tree, node_id) THEN [eps EXCEPT ![node_id] = addr] ELSE eps

\* the record Engine.verify_peer returns: the one the tree holds, or
\* Node(addr, port, node_id)
verify_peer_node(tree, ps, addr, node_id) ==
    IF get_node_by_id(tree, node_id)
    THEN [node_id |-> node_id, address |-> addr, liveness |-> ps[node_id],
          held |-> TRUE]
    ELSE [node_id |-> node_id, address |-> addr, liveness |-> NewNode,
          held |-> FALSE]

\* the addresses of the records the tree holds after peer was added
Endpoints(eps, tree, peer, addr) ==
    LET held == SeqToSet(get_all_nodes(tree))
    IN  [id \in EnginePeerIds |->
            IF id \notin held THEN 0 ELSE IF id = peer THEN addr ELSE eps[id]]

\* Discovery.handle_peer / DistributedHashtable.handle_peer for the message
\* types sent here: the value table and the reply, or the exception
handle_peer(table, peer, msgtype, content) ==
    CASE msgtype = PING ->
            [raised |-> FALSE, hashtable |-> table, stored |-> {},
             reply |-> <<PONG, <<>> >>]
      [] msgtype = FVAL ->
            IF Len(content) = DIGEST_LEN /\ content \in DOMAIN table
            THEN [raised |-> FALSE, hashtable |-> table, stored |-> {},
                  reply |-> <<RVAL, table[content][2]>>]
            ELSE [raised |-> TRUE, hashtable |-> table, stored |-> {},
                  reply |-> <<>>]
      [] msgtype = STOR ->
            [raised |-> FALSE,
             hashtable |-> MapSet(table, id_for_key(content), <<peer, content>>),
             stored |-> {id_for_key(content)},
             reply |-> <<>>]
      [] OTHER ->
            [raised |-> FALSE, hashtable |-> table, stored |-> {}, reply |-> <<>>]

\* Engine.recv_external on one datagram: what it leaves behind.  Every
\* exception ends the handler and keeps what was done before it.
recv_external(data, addr) ==
    LET same == [tree |-> nodetree, peers |-> peers, endpoints |-> endpoints,
                 defrag |-> defrag, hashtable |-> hashtable, stored |-> {},
                 outcome |-> "dropped", msgtype |-> 0, msg |-> <<>>,
                 reply |-> <<>>]
        p == Packet_unpack(data)
    IN  IF p.raised THEN same
        ELSE
        LET plain == IF p.mode = OPTION_CURVE
                     THEN decrypt(engine_node, p.node_id, p.payload)
                     ELSE [raised |-> FALSE, msg |-> p.payload]
        IN  IF plain.raised THEN same
            ELSE
            LET d == Payload_unpack(plain.msg)
            IN  IF d.raised THEN same
                ELSE
                LET peer == p.node_id
                    eps1 == verify_peer(nodetree, endpoints, addr, peer)
                    got == DefragMap_get_msg(defrag, d.txid, d.fragment,
                                             d.lastfrag, d.content)
                IN  IF got.raised
                    THEN [same EXCEPT !.endpoints = eps1]
                    ELSE IF got.msg = <<>>
                    THEN [same EXCEPT !.endpoints = eps1, !.defrag = got.map]
                    ELSE
                    LET tree1 == add(nodetree, peer)
                        eps2 == Endpoints(eps1, tree1, peer, addr)
                    IN  IF d.msgtype % 2 = 1
                        THEN LET h == handle_peer(hashtable, peer, d.msgtype, d.content)
                                 ps1 == IF h.reply # <<>>
                                        THEN [peers EXCEPT ![peer] = response_out(@)]
                                        ELSE peers
                             IN  [tree |-> tree1, peers |-> Liveness(ps1, tree1),
                                  endpoints |-> eps2, defrag |-> got.map,
                                  hashtable |-> h.hashtable, stored |-> h.stored,
                                  outcome |-> IF h.raised THEN "raised" ELSE "handled",
                                  msgtype |-> d.msgtype, msg |-> got.msg,
                                  reply |-> h.reply]
                        ELSE [tree |-> tree1,
                              peers |-> Liveness([peers EXCEPT ![peer] = response_in(@)],
                                                 tree1),
                              endpoints |-> eps2, defrag |-> got.map,
                              hashtable |-> hashtable, stored |-> {},
                              outcome |-> "handled", msgtype |-> d.msgtype,
                              msg |-> got.msg, reply |-> <<>>]

DatagramInit ==
    /\ nodetree = add(RoutingZone(LocalId, 0, <<>>), LocalId)
    /\ tree_op = [op |-> "init"]
    /\ NodeIdle
    /\ peers = [id \in EnginePeerIds |-> NewNode]
    /\ txmap = EmptyMap
    /\ hashtable = EmptyMap
    /\ wire = {}
    /\ packed = [op |-> "none"]
    /\ delivered = <<>>
    /\ defrag = EmptyMap
    /\ endpoints = [id \in EnginePeerIds |-> IF id = LocalId THEN 1 ELSE 0]
    /\ stor_handled = {}
    /\ recv_op = [op |-> "init"]
    /\ ActorIdle

\* a peer sends one message once the previous one has left the network
PeerSend ==
    \E peer \in WirePeerIds, mode \in {OPTION_PLAIN, OPTION_CURVE}, txid \in TxIds,
       m \in WireMessages :
        /\ wire = {}
        /\ wire' = Datagrams(peer, mode, txid, m[1], m[2])
        /\ packed' = [op |-> "send_external", peer |-> peer, txid |-> txid,
                    msgtype |-> m[1], content |-> m[2],
                    fragments |-> Cardinality(wire')]
        /\ delivered' = <<>>
        /\ UNCHANGED <<treevars, nodevars, enginevars, defrag, endpoints, stor_handled,
                       recv_op, actorvars, netvars, pipevars>>

\* what is wrong with a datagram: shorter than the minimum packet, sealed
\* with an authenticator that does not match, or a fragment header that
\* declares more content than the bytes after it
TooShort(data) == Len(data) < MIN_PACKET_LEN

FailsAuthentication(data) ==
    LET p == Packet_unpack(data)
    IN  /\ ~ p.raised
        /\ p.mode = OPTION_CURVE
        /\ decrypt(engine_node, p.node_id, p.payload).raised

DeclaresTooMuch(data) ==
    LET p == Packet_unpack(data)
    IN  /\ ~ p.raised
        /\ LET plain == IF p.mode = OPTION_CURVE
                        THEN decrypt(engine_node, p.node_id, p.payload)
                        ELSE [raised |-> FALSE, msg |-> p.payload]
           IN  /\ ~ plain.raised
               /\ ~ Payload_unpack(plain.msg).raised
               /\ Payload_unpack(plain.msg).content_length
                     > Len(plain.msg) - PAYLOAD_HEADER_LEN

\* the effect of recv_external on the engine
Received(data, addr) ==
    \E r \in {recv_external(data, addr)} :
        /\ nodetree' = r.tree
        /\ peers' = r.peers
        /\ endpoints' = r.endpoints
        /\ defrag' = r.defrag
        /\ hashtable' = r.hashtable
        /\ store_time' = [k \in DOMAIN r.hashtable |->
                              IF k \in r.stored THEN now ELSE store_time[k]]
        /\ stor_handled' = IF r.msgtype = STOR
                           THEN stor_handled \cup SeqToSet(r.msg) ELSE stor_handled
        /\ recv_op' = [op |-> "recv_external", short |-> TooShort(data),
                       unauthentic |-> FailsAuthentication(data),
                       overlong |-> DeclaresTooMuch(data),
                       outcome |-> r.outcome, msgtype |-> r.msgtype,
                       msg |-> r.msg, reply |-> r.reply]
        /\ UNCHANGED <<tree_op, nodevars, txmap, packed, running, raised,
                       engine_node, commands, replies, now, ticked,
                       next_published_refresh, next_closest_refresh, netvars, pipevars>>

\* one of the datagrams on the wire arrives
RecvExternal ==
    \E data \in wire, addr \in Addrs :
        /\ wire' = wire \ {data}
        /\ delivered' = delivered \o recv_external(data, addr).msg
        /\ Received(data, addr)

\* a damaged datagram arrives
RecvDamaged ==
    \E data \in ShortDatagrams \cup ForgedDatagrams \cup OverlongDatagrams,
       addr \in Addrs :
        /\ UNCHANGED <<wire, delivered>>
        /\ Received(data, addr)

DatagramNext == PeerSend \/ RecvExternal \/ RecvDamaged

SpecDatagram == DatagramInit /\ [][DatagramNext]_vars

\* ------------------------------------------------------------------------
\* Endpoint specification: one lookup and the node replies to it, with the
\* sender's address and the (address, port, id) triples the reply lists; an
\* address of the model stands for the pair of address and port
\* ------------------------------------------------------------------------
ReplyTriples == [address : Addrs, node_id : EnginePeerIds]

\* unpack_response: the triples of a reply, in the order they were packed
TripleContents == UNION { [1 .. n -> ReplyTriples] : n \in 0 .. MaxListed }

TripleIds(content) == [i \in 1 .. Len(content) |-> content[i].node_id]

\* the loop of FindNodes.handle_response as the records' addresses see it:
\* n = verify_peer(addr, port, id), nodetree.add(n)
RECURSIVE VerifyReplied(_, _, _)
VerifyReplied(tree, eps, content) ==
    IF content = <<>> THEN eps
    ELSE LET x == Head(content)
             eps1 == verify_peer(tree, eps, x.address, x.node_id)
             tree1 == add(tree, x.node_id)
         IN  VerifyReplied(tree1, Endpoints(eps1, tree1, x.node_id, x.address),
                           Tail(content))

\* recv_external on a NODE_REPLY datagram from peer at addr: verify_peer for
\* the sender, nodetree.add, response_in, then handle_response of the
\* transaction the txid names, if there is one
EndpointReply ==
    \E peer \in EnginePeerIds, addr \in Addrs, txid \in TxIds,
       content \in TripleContents :
        LET eps1 == verify_peer(nodetree, endpoints, addr, peer)
            tree1 == add(nodetree, peer)
            eps2 == Endpoints(eps1, tree1, peer, addr)
            handled == /\ CanResponseIn(peers[peer])
                       /\ txid \in DOMAIN txmap
                       /\ txmap[txid].kind = "FindNodes"
        IN  /\ handle_external_response(peer, txid, RNOD, TripleIds(content))
            /\ endpoints' = IF handled THEN VerifyReplied(tree1, eps2, content)
                            ELSE eps2
            /\ recv_op' = [op |-> "recv_external", peer |-> peer, addr |-> addr,
                           msgtype |-> RNOD]
            /\ UNCHANGED <<tree_op, nodevars, wire, packed, delivered, defrag,
                           stor_handled, actorvars, netvars, pipevars>>

EndpointNext == poll_neighbours \/ EndpointReply

SpecEndpoint == DatagramInit /\ [][EndpointNext]_vars

\* ------------------------------------------------------------------------
\* Run loop specification: the client's commands (recv_api), STOR datagrams
\* from peers, and the value table's timer events, with the value table the
\* engine loaded from its local store.  The clock is read every TimerPeriod
\* seconds; the timer part of run() runs at least once per reading.
\* ------------------------------------------------------------------------
\* the commands the message services register (state_table of Discovery and
\* of DistributedHashtable)
TransactionCommands == {"PING", "FNOD", "FVAL", "STOR", "HASH", "PUBL"}

has_command_any(command) == TRUE

\* has_command of some registered service
has_command(command) == command \in TransactionCommands

\* the ids zmq.curve_keypair() can return
KeypairIds == EnginePeerIds \ ({LocalId} \cup WirePeerIds)

\* what a client sends: a command name and, for START and RESET, the node
\* id (-1 for the empty string); NOOP stands for any name the engine does
\* not know
ApiCommands ==
    { [name |-> n, node_id |-> -1] :
        n \in {"NODE", "PEERS", "RESET", "START", "STOP", "FNOD", "FVAL", "STOR",
               "REMV", "PUBL", "HASH", "NOOP"} }
    \cup { [name |-> n, node_id |-> id] : n \in {"RESET", "START"}, id \in WirePeerIds }

\* an entry a former run stored for a peer and dumped: the table the
\* constructor loads
StoredTables ==
    {EmptyMap}
    \cup { [key \in {id_for_key(StoreValue_pack_request(k, v))} |->
              <<peer, StoreValue_pack_request(k, v)>>] :
            k \in WireKeys, v \in WireValues, peer \in WirePeerIds }

\* the node id a digest stands for
NodeIdOf(digest) == digest[DIGEST_LEN] % (2 ^ KEY_BITS)

\* time.time() >= last + 2.5 * published_refresh
Expired(last, t) == 2 * (t - last) >= 5 * published_refresh

\* the engine object as its constructor leaves it: the value table it
\* loaded, the tree reset() made, the timers DistributedHashtable set
LoadedEngine ==
    /\ raised = "none"
    /\ engine_node = LocalId
    /\ commands = <<>>
    /\ replies = <<>>
    /\ now = 0
    /\ ticked = FALSE
    /\ next_published_refresh = 0
    /\ next_closest_refresh = closest_refresh
    /\ nodetree = add(RoutingZone(LocalId, 0, <<>>), LocalId)
    /\ tree_op = [op |-> "init"]
    /\ NodeIdle
    /\ peers = [id \in EnginePeerIds |-> NewNode]
    /\ txmap = EmptyMap
    /\ hashtable \in StoredTables
    /\ \E age \in 0 .. MaxStoredAge :
          store_time = [key \in DOMAIN hashtable |-> 0 - age * TimerPeriod]
    /\ wire = {}
    /\ packed = [op |-> "none"]
    /\ delivered = <<>>
    /\ defrag = EmptyMap
    /\ endpoints = [id \in EnginePeerIds |-> IF id = LocalId THEN 1 ELSE 0]
    /\ stor_handled = {}
    /\ recv_op = [op |-> "init"]
    /\ NetIdle

ActorInit ==
    /\ running = "created"
    /\ LoadedEngine
    /\ PipeIdle

\* Engine.reset: a new Node and tree, transaction map and fragment table;
\* the value table is kept (the assignment is to self.hashtabe)
ResetTo(id) ==
    /\ engine_node' = id
    /\ nodetree' = add(RoutingZone(id, 0, <<>>), id)
    /\ peers' = [p \in EnginePeerIds |-> NewNode]
    /\ endpoints' = [p \in EnginePeerIds |-> IF p = id THEN 1 ELSE 0]
    /\ txmap' = EmptyMap
    /\ defrag' = EmptyMap

\* Engine.recv_api: START, STOP, RESET, NODE and PEERS are served at once;
\* for a registered command TxMap.create is called with callback=, which it
\* does not take: TypeError, not caught, ends run(); any other command is
\* answered 'Invalid Command'
recv_api(c) ==
        LET index == Len(commands) + 1
            reply(frame) == Append(replies, [index |-> index, frame |-> frame])
            identity == <<engine_node, nodetree, peers, endpoints, txmap, defrag>>
        IN  /\ running \in {"created", "started"}
            /\ Len(commands) < MaxCommands
            /\ commands' = Append(commands, c.name)
            /\ CASE c.name = "START" ->
                      /\ IF c.node_id # -1 THEN ResetTo(c.node_id)
                                           ELSE UNCHANGED identity
                      /\ running' = "started"
                      /\ replies' = reply("node")
                      /\ UNCHANGED raised
                 [] c.name = "STOP" ->
                      /\ running' = "stopped"
                      /\ UNCHANGED <<identity, replies, raised>>
                 [] c.name = "RESET" ->
                      /\ IF c.node_id # -1 THEN ResetTo(c.node_id)
                                           ELSE \E id \in KeypairIds : ResetTo(id)
                      /\ replies' = reply("node")
                      /\ UNCHANGED <<running, raised>>
                 [] c.name \in {"NODE", "PEERS"} ->
                      /\ replies' = reply(IF c.name = "NODE" THEN "node" ELSE "peers")
                      /\ UNCHANGED <<identity, running, raised>>
                 [] has_command(c.name) ->
                      /\ running' = "died"
                      /\ raised' = "TypeError"
                      /\ UNCHANGED <<identity, replies>>
                 [] OTHER ->
                      /\ replies' = reply("Invalid Command")
                      /\ UNCHANGED <<identity, running, raised>>
            /\ UNCHANGED <<tree_op, nodevars, hashtable, wire, packed, delivered,
                           stor_handled, recv_op, now, ticked,
                           next_published_refresh, next_closest_refresh, store_time>>

\* the run loop reads one command of the client from the pipe
RecvApi ==
    \E c \in ApiCommands :
        /\ recv_api(c)
        /\ UNCHANGED <<netvars, pipevars>>

\* StoreValue.__init__ as TxMap.create runs it: the entry for
\* id_for_key(key) is written with the local node as originator, then
\* query() runs _send_query, whose TxMap.create(..., callback=) raises
\* TypeError: the transaction is never put into the map
StoreValue_init(table, times, local, t, key, content) ==
    [raised |-> TRUE,
     hashtable |-> MapSet(table, id_for_key(key), <<local, content>>),
     store_time |-> MapSet(times, id_for_key(key), t)]

\* republish_own: the entries of the local node older than published_refresh
republish_own(table, times, local, t) ==
    { k \in DOMAIN table : table[k][1] = local /\ t > times[k] + published_refresh }

\* republish_closest: the entries of other nodes older than closest_refresh,
\* if closest_to returns any node
republish_closest(table, times, local, t, tree) ==
    { k \in DOMAIN table :
        /\ table[k][1] # local
        /\ t > times[k] + closest_refresh
        /\ closest_to(tree, NodeIdOf(id_for_key(k)), K) # <<>> }

\* expire_values: the entries that have reached 2.5 * published_refresh
expire_values(table, times, t) ==
    { k \in DOMAIN table : Expired(times[k], t) }

\* the run loop dies of an exception raised while key was republished
DiesRepublishing(key) ==
    \E r \in {StoreValue_init(hashtable, store_time, engine_node, now,
                              key, hashtable[key][2])} :
        /\ hashtable' = r.hashtable
        /\ store_time' = r.store_time
        /\ running' = "died"
        /\ raised' = "TypeError"

\* DistributedHashtable.trigger_events, called by the timer part of run()
TriggerEvents ==
    LET own == republish_own(hashtable, store_time, engine_node, now)
        published_due == next_published_refresh - now <= 0
        published_next == IF published_due
                          THEN next_published_refresh + published_refresh
                          ELSE next_published_refresh
        closest_due == next_closest_refresh - now <= 0
        others == republish_closest(hashtable, store_time, engine_node, now, nodetree)
        old == expire_values(hashtable, store_time, now)
    IN  /\ running \in {"created", "started"}
        /\ ticked' = TRUE
        /\ IF published_due /\ own # {}
           THEN /\ \E key \in own : DiesRepublishing(key)
                /\ UNCHANGED <<next_published_refresh, next_closest_refresh>>
           ELSE /\ next_published_refresh' = published_next
                /\ IF closest_due /\ others # {}
                   THEN /\ \E key \in others : DiesRepublishing(key)
                        /\ UNCHANGED next_closest_refresh
                   ELSE IF closest_due /\ \E key \in old : hashtable[key][1] = engine_node
                   THEN \* the assertion fails at the first local entry met
                        /\ \E gone \in SUBSET { k \in old : hashtable[k][1] # engine_node } :
                              /\ hashtable' = [k \in DOMAIN hashtable \ gone |-> hashtable[k]]
                              /\ store_time' = [k \in DOMAIN hashtable \ gone |-> store_time[k]]
                        /\ running' = "died"
                        /\ raised' = "AssertionError"
                        /\ UNCHANGED next_closest_refresh
                   ELSE IF closest_due
                   THEN /\ hashtable' = [k \in DOMAIN hashtable \ old |-> hashtable[k]]
                        /\ store_time' = [k \in DOMAIN hashtable \ old |-> store_time[k]]
                        /\ next_closest_refresh' = next_closest_refresh + closest_refresh
                        /\ UNCHANGED <<running, raised>>
                   ELSE UNCHANGED <<hashtable, store_time, next_closest_refresh,
                                    running, raised>>
        /\ UNCHANGED <<treevars, nodevars, peers, txmap, wirevars, engine_node,
                       commands, replies, now, netvars, pipevars>>

\* time passes
Advance ==
    /\ running \in {"created", "started"}
    /\ ticked
    /\ now < MaxTicks * TimerPeriod
    /\ now' = now + TimerPeriod
    /\ ticked' = FALSE
    /\ UNCHANGED <<treevars, nodevars, enginevars, wirevars, running, raised,
                   engine_node, commands, replies, next_published_refresh,
                   next_closest_refresh, store_time, netvars, pipevars>>

\* recv_external on a STOR datagram of a peer; the socket is polled once
\* START has registered it
RecvStor ==
    \E peer \in WirePeerIds, k \in WireKeys, v \in WireValues, addr \in Addrs :
    \E data \in Datagrams(peer, OPTION_PLAIN, 1, STOR, StoreValue_pack_request(k, v)) :
        /\ running = "started"
        /\ UNCHANGED <<wire, delivered>>
        /\ Received(data, addr)

ActorNext == RecvApi \/ TriggerEvents \/ Advance \/ RecvStor

SpecActor == ActorInit /\ [][ActorNext]_vars

\* run() keeps polling while it is alive: a step that can be taken is taken
SpecActorLive == SpecActor /\ WF_vars(ActorNext)

\* ------------------------------------------------------------------------
\* Handshake specification: the client thread in the Network facade and the
\* engine thread utils.Actor starts for it, with the pipe between them.  The
\* engine does what it does in the run loop specification; the client makes
\* its calls one after the other and ends with leave().
\* ------------------------------------------------------------------------
\* Pipe.signal: struct.pack("Q", PIPE_SIGNAL + status), eight bytes
SignalFrame == "signal"

\* len(msg) of a frame on the pipe: the signal, 'Invalid Command', the JSON
\* of a node (a dict of its fields) and the JSON of a list of nodes, "[]"
\* at the least
FrameLength(msg) ==
    CASE msg = SignalFrame -> 8
      [] msg = "Invalid Command" -> 15
      [] msg = "peers" -> 2
      [] OTHER -> 64

\* one pass of the loop of Pipe.wait on a received frame: the status of a
\* signal, -1 for another frame of eight bytes, or no return ("again")
Pipe_wait(msg) ==
    IF FrameLength(msg) = 8
    THEN IF msg = SignalFrame THEN "0" ELSE "-1"
    ELSE "again"

HandshakeInit ==
    /\ running = "spawned"
    /\ LoadedEngine
    /\ client = "constructing"
    /\ pipe_in = <<>>
    /\ pipe_out = <<>>

\* Engine.run, entered from the constructor: signal_api()
SignalApi ==
    /\ running = "spawned"
    /\ running' = "created"
    /\ pipe_out' = Append(pipe_out, SignalFrame)
    /\ UNCHANGED <<treevars, nodevars, enginevars, wirevars, raised, engine_node,
                   commands, replies, now, ticked, next_published_refresh,
                   next_closest_refresh, store_time, netvars, client, pipe_in>>

\* Pipe.wait in Actor.__init__ (the constructor of Network), in
\* Network.leave and in Network.unpublish takes one frame
ClientWait ==
    /\ client \in {"constructing", "leaving", "unpublishing"}
    /\ pipe_out # <<>>
    /\ pipe_out' = Tail(pipe_out)
    /\ client' = IF Pipe_wait(Head(pipe_out)) = "again" THEN client
                 ELSE IF client = "leaving" THEN "left" ELSE "ready"
    /\ UNCHANGED <<treevars, nodevars, enginevars, wirevars, actorvars, netvars,
                   pipe_in>>

\* a call of the facade other than leave(): the command is sent, then the
\* reply is read with recv() (unpublish: with wait())
ClientCall ==
    \E c \in ApiCommands :
        /\ client = "ready"
        /\ c.name # "STOP"
        /\ Len(commands) + Len(pipe_in) + 1 < MaxCommands
        /\ pipe_in' = Append(pipe_in, c)
        /\ client' = IF c.name = "REMV" THEN "unpublishing" ELSE "awaiting"
        /\ UNCHANGED <<treevars, nodevars, enginevars, wirevars, actorvars, netvars,
                       pipe_out>>

\* self.engine.recv() of such a call returns the next frame
ClientRecv ==
    /\ client = "awaiting"
    /\ pipe_out # <<>>
    /\ pipe_out' = Tail(pipe_out)
    /\ client' = "ready"
    /\ UNCHANGED <<treevars, nodevars, enginevars, wirevars, actorvars, netvars,
                   pipe_in>>

\* Network.leave: sends STOP, then waits for the signal
ClientLeave ==
    /\ client = "ready"
    /\ pipe_in' = Append(pipe_in, [name |-> "STOP", node_id |-> -1])
    /\ client' = "leaving"
    /\ UNCHANGED <<treevars, nodevars, enginevars, wirevars, actorvars, netvars,
                   pipe_out>>

\* the run loop reads the next command from the pipe; what recv_api writes
\* with send_api goes to the pipe
PipeRecvApi ==
    /\ pipe_in # <<>>
    /\ recv_api(Head(pipe_in))
    /\ pipe_in' = Tail(pipe_in)
    /\ pipe_out' = pipe_out \o [i \in 1 .. (Len(replies') - Len(replies)) |->
                                   replies'[Len(replies) + i].frame]
    /\ UNCHANGED <<netvars, client>>

\* In a pass of the loop recv_api comes before recv_external and the timer
\* part, and the pipe is polled every second: a command that is waiting is
\* read before the engine does anything else.
\*
\* Actor.run after the Engine constructor (and with it the run loop) has
\* returned: the final signal.  An exception out of the constructor ends
\* the thread before this line.
ActorExit ==
    /\ running = "stopped"
    /\ running' = "exited"
    /\ pipe_out' = Append(pipe_out, SignalFrame)
    /\ UNCHANGED <<treevars, nodevars, enginevars, wirevars, raised, engine_node,
                   commands, replies, now, ticked, next_published_refresh,
                   next_closest_refresh, store_time, netvars, client, pipe_in>>

HandshakeNext ==
    \/ SignalApi
    \/ ClientWait
    \/ ClientCall
    \/ ClientRecv
    \/ ClientLeave
    \/ PipeRecvApi
    \/ ActorExit
    \/ (pipe_in = <<>> /\ TriggerEvents)
    \/ (pipe_in = <<>> /\ Advance)
    \/ (pipe_in = <<>> /\ RecvStor)

SpecHandshake == HandshakeInit /\ [][HandshakeNext]_vars

\* both threads keep running: the engine's loop reads the pipe whenever it
\* has a command and the thread goes on after the loop; a client blocked
\* in wait() or recv() takes the frame that is there
SpecHandshakeLive ==
    /\ SpecHandshake
    /\ WF_vars(SignalApi)
    /\ WF_vars(PipeRecvApi)
    /\ WF_vars(ActorExit)
    /\ WF_vars(ClientWait)
    /\ WF_vars(ClientRecv)

\* ------------------------------------------------------------------------
\* Network specification: one engine per node id, the first of them the
\* seed the others are started with.  Each engine makes its bootstrap
\* neighbour poll (Discovery.poll_neighbours at the first timer tick),
\* answers the FNOD queries of the others, and is then asked by its client
\* to find nodes.  No datagram is lost and no lookup times out.
\* ------------------------------------------------------------------------
NetIds == EnginePeerIds
Seed == LocalId
Joiners == NetIds \ {Seed}

\* Engine.seeds of a node
seeds(n) == IF n = Seed THEN <<>> ELSE <<Seed>>

NoTx == [kind |-> "none"]

\* Engine.start: nodetree.add(Node(...)) for every seed
RECURSIVE PushSeeds(_, _)
PushSeeds(tree, lst) ==
    IF lst = <<>> THEN tree ELSE PushSeeds(add(tree, Head(lst)), Tail(lst))

\* Engine.__init__ of every node: reset() puts the node into its own tree
NetInit ==
    /\ net = [n \in NetIds |->
                [running |-> "created",
                 tree |-> add(RoutingZone(n, 0, <<>>), n),
                 tx |-> NoTx,
                 polled |-> FALSE,
                 asked |-> {},
                 replies |-> <<>>]]
    /\ net_wire = {}
    /\ nodetree = RoutingZone(LocalId, 0, <<>>)
    /\ tree_op = [op |-> "init"]
    /\ NodeIdle
    /\ peers = [id \in EnginePeerIds |-> NewNode]
    /\ txmap = EmptyMap
    /\ hashtable = EmptyMap
    /\ WireIdle
    /\ running = "created"
    /\ raised = "none"
    /\ engine_node = LocalId
    /\ commands = <<>>
    /\ replies = <<>>
    /\ now = 0
    /\ ticked = FALSE
    /\ next_published_refresh = 0
    /\ next_closest_refresh = closest_refresh
    /\ store_time = EmptyMap
    /\ PipeIdle

NetRest == <<treevars, nodevars, enginevars, wirevars, actorvars, pipevars>>

\* the FNOD datagrams a lookup of node n sends to the peers it has newly
\* queried (send_external in FindNodes._send_query)
Queries(n, before, after) ==
    { [src |-> n, dst |-> peer, msgtype |-> FNOD, content |-> <<after.target>>] :
        peer \in after.outstanding \ before }

\* client command START (Network.join): the socket is polled from now on
\* and the seeds are added to the tree
NetStart(n) ==
    /\ net[n].running = "created"
    /\ net' = [net EXCEPT ![n].running = "started",
                          ![n].tree = PushSeeds(net[n].tree, seeds(n))]
    /\ UNCHANGED <<net_wire, NetRest>>

\* the first timer tick of run(): Discovery.poll_neighbours creates a
\* FindNodes for the node's own id
NetPoll(n) ==
    /\ net[n].running \in {"created", "started"}
    /\ ~ net[n].polled
    /\ \E tx \in {FindNodes_init(net[n].tree, n)} :
          /\ net' = [net EXCEPT ![n].polled = TRUE, ![n].tx = tx]
          /\ net_wire' = net_wire \cup Queries(n, {}, tx)
    /\ UNCHANGED NetRest

\* recv_external of the receiver on one datagram: the sender is added to
\* the tree; a query is answered by Discovery.handle_peer with the closest
\* nodes of the tree (no record is failed here), a response is given to the
\* lookup
NetRecv(m) ==
    /\ m \in net_wire
    /\ net[m.dst].running = "started"
    /\ \E n \in {m.dst} : \E tree1 \in {add(net[n].tree, m.src)} :
          IF m.msgtype = FNOD
          THEN /\ net' = [net EXCEPT ![n].tree = tree1]
               /\ net_wire' = (net_wire \ {m}) \cup
                      {[src |-> n, dst |-> m.src, msgtype |-> RNOD,
                        content |-> closest_to(tree1, m.content[1], K)]}
          ELSE IF net[n].tx.kind = "FindNodes"
          THEN \E r \in {FindNodes_handle_response(tree1, net[n].tx, m.src,
                                                    m.msgtype, m.content)} :
                  /\ net' = [net EXCEPT ![n].tree = r.tree, ![n].tx = r.tx]
                  /\ net_wire' = (net_wire \ {m}) \cup
                         Queries(n, net[n].tx.outstanding \ {m.src}, r.tx)
          ELSE /\ net' = [net EXCEPT ![n].tree = tree1]
               /\ net_wire' = net_wire \ {m}
    /\ UNCHANGED NetRest

\* every bootstrap poll is over and nothing is on its way
Settled ==
    /\ net_wire = {}
    /\ \A n \in NetIds : net[n].polled /\ is_complete(net[n].tx)

\* client command FNOD (Network.find_nodes) once the polls are over:
\* recv_api calls TxMap.create with callback=, TypeError, run() ends; no
\* lookup is created and nothing is written to the pipe
NetFindNodes(n, target) ==
    /\ Settled
    /\ net[n].running = "started"
    /\ net[n].asked = {}
    /\ net' = [net EXCEPT ![n].running = "died", ![n].asked = {target}]
    /\ UNCHANGED <<net_wire, NetRest>>

NetNext ==
    \/ \E n \in NetIds : NetStart(n)
    \/ \E n \in NetIds : NetPoll(n)
    \/ \E m \in net_wire : NetRecv(m)
    \/ \E n \in Joiners, target \in Ids : NetFindNodes(n, target)

SpecNetwork == NetInit /\ [][NetNext]_vars

\* every engine keeps running its loop while it is alive: it is started,
\* polls its neighbours at its first tick and reads the client's command.
\* Datagrams travel over UDP, so nothing promises that one is delivered.
SpecNetworkLive ==
    /\ SpecNetwork
    /\ WF_vars(\E n \in NetIds : NetStart(n))
    /\ WF_vars(\E n \in NetIds : NetPoll(n))
    /\ WF_vars(\E n \in Joiners, target \in Ids : NetFindNodes(n, target))

\* ------------------------------------------------------------------------
\* Properties of the routing tree
\* ------------------------------------------------------------------------
\* every zone of the tree with the child indices (0/1) leading to it
RECURSIVE ZonesOf(_, _)
ZonesOf(zone, path) ==
    {[zone |-> zone, path |-> path]} \cup
    (IF is_leaf(zone) THEN {}
     ELSE ZonesOf(zone.children[1], Append(path, 0)) \cup
          ZonesOf(zone.children[2], Append(path, 1)))

BinNodes(zone) == IF zone.routing_bin = <<>> THEN <<>> ELSE zone.routing_bin[1].nodes

AllRecords(zone) == UNION { SeqToSet(BinNodes(e.zone)) : e \in ZonesOf(zone, <<>>) }

NoDuplicates(s) == \A i, j \in 1 .. Len(s) : s[i] = s[j] => i = j

\* C1: after any sequence of add / remove calls every leaf's routing bin
\* holds at most K active records.
C1_LeafHoldsAtMostK ==
    \A e \in ZonesOf(nodetree, <<>>) :
        is_leaf(e.zone) => Len(BinNodes(e.zone)) <= K

\* a full leaf that may not split was offered one more record
C1_Witness ==
    /\ tree_op.op = "add" /\ ~ tree_op.split
    /\ \E e \in ZonesOf(nodetree, <<>>) :
          /\ is_leaf(e.zone) /\ e.zone.depth >= B
          /\ Len(BinNodes(e.zone)) = K
          /\ nodetree.node_id \notin SeqToSet(BinNodes(e.zone))

\* C2: only leaves hold records; every record of a leaf at depth d (the
\* local node's record included) has the path from the root to the leaf as
\* the first d bits of its node_id; hence no node_id is in two leaves.
C2_RecordsMatchPath ==
    /\ \A e \in ZonesOf(nodetree, <<>>) :
          /\ e.zone.depth = Len(e.path)
          /\ is_leaf(e.zone) <=> (e.zone.routing_bin # <<>>)
          /\ \A id \in SeqToSet(BinNodes(e.zone)) :
                \A d \in 1 .. Len(e.path) :
                    (id \div (2 ^ (KEY_BITS - d))) % 2 = e.path[d]
    /\ NoDuplicates(get_all_nodes(nodetree))
    /\ \A e1, e2 \in ZonesOf(nodetree, <<>>) :
          e1.path # e2.path =>
              SeqToSet(BinNodes(e1.zone)) \cap SeqToSet(BinNodes(e2.zone)) = {}

\* a remove has just consolidated a zone below the root into a leaf that
\* holds a record, in a tree that was split before
C2_Witness ==
    /\ tree_op.op = "remove" /\ tree_op.consolidated
    /\ ~ is_leaf(nodetree)
    /\ \E e1, e2 \in ZonesOf(nodetree, <<>>) :
          /\ e1.path # e2.path
          /\ is_leaf(e1.zone) /\ BinNodes(e1.zone) # <<>>
          /\ is_leaf(e2.zone) /\ BinNodes(e2.zone) # <<>>

\* C3: closest_to(target, n) returns min(n, number of records) records of
\* the tree, in non-decreasing XOR distance to target, and no record left
\* out is strictly closer to target than a returned one.
C3_ClosestToIsSortedPrefix ==
    tree_op.op = "closest_to" =>
        LET res == tree_op.nodes
            target == tree_op.target
            all == AllRecords(nodetree)
        IN  /\ Len(res) = (IF tree_op.max_nodes < Cardinality(all)
                           THEN tree_op.max_nodes ELSE Cardinality(all))
            /\ NoDuplicates(res)
            /\ SeqToSet(res) \subseteq all
            /\ \A i \in 1 .. (Len(res) - 1) :
                  Xor(res[i], target) <= Xor(res[i + 1], target)
            /\ \A out \in all \ SeqToSet(res) : \A i \in 1 .. Len(res) :
                  Xor(res[i], target) <= Xor(out, target)

\* a call that had to take records from the sibling subtree as well and
\* still left records out
C3_Witness ==
    /\ tree_op.op = "closest_to"
    /\ ~ is_leaf(nodetree)
    /\ LET near == nodetree.children[bit_number(tree_op.target, 0) + 1]
       IN  /\ Len(get_all_nodes(near)) >= 1
           /\ Len(get_all_nodes(near)) < Len(tree_op.nodes)
    /\ Len(tree_op.nodes) < Len(get_all_nodes(nodetree))

\* ------------------------------------------------------------------------
\* Properties of the Node liveness machine
\* ------------------------------------------------------------------------
\* C7: a discovered or verified record is failed exactly from its third
\* consecutive timeout (no response in between) on: still discovered or
\* verified after one or two, failed after the third.
C7_FailedOnThirdTimeout ==
    /\ node.consecutive_timeouts \in {1, 2} => node.state # "failed"
    /\ node.consecutive_timeouts >= 3 => node.state = "failed"

Lookups == {"FindNodes", "FindValue"}

Capacity(tx) == IF tx.kind = "FindNodes" THEN max_concurrency ELSE max_concurrent

SortedByDistance(lst, target) ==
    \A i \in 1 .. (Len(lst) - 1) :
        distance(lst[i], target) <= distance(lst[i + 1], target)

\* C4: a FindNodes or FindValue transaction never has more outstanding
\* queries than its concurrency limit alpha
C4_OutstandingAtMostAlpha ==
    \A txid \in DOMAIN txmap :
        txmap[txid].kind \in Lookups =>
            Cardinality(txmap[txid].outstanding) <= Capacity(txmap[txid])

\* a lookup that is at its limit while it still has peers to query
C4_Witness ==
    \E txid \in DOMAIN txmap :
        /\ txmap[txid].kind = "FindNodes"
        /\ Cardinality(txmap[txid].outstanding) = max_concurrency
        /\ txmap[txid].unqueried # <<>>
        /\ Len(txmap[txid].queried) >= 2

C6_TimeoutOnTerminalIsNoOp ==
    [][ \A txid \in DOMAIN txmap \cap DOMAIN txmap' :
            (txmap'[txid].age > txmap[txid].age /\ is_complete(txmap[txid])) =>
                /\ txmap'[txid].state = txmap[txid].state
                /\ txmap'[txid].completed = txmap[txid].completed
                /\ LET live == { x \in DOMAIN txmap : ~is_complete(txmap[x]) }
                       aged == [x \in live |-> [txmap[x] EXCEPT !.age = @ + 1]]
                   IN  peers' = TxMap_timeout(aged, TimeoutAge, nodetree, peers).peers ]_vars

LookupView(tx) ==
    <<tx.closest, tx.unqueried, tx.queried, tx.outstanding, tx.state>>

\* C9: a response to a lookup from a peer that is not in its outstanding map
\* leaves closest, unqueried, queried, outstanding and the state as they were
C9_NonOutstandingResponseIgnored ==
    [][ \A peer \in EnginePeerIds, txid \in DOMAIN txmap,
           msgtype \in {PONG, RNOD, NODE, RVAL} :
           \A content \in Contents(txid, msgtype) :
              ( /\ txmap[txid].kind \in Lookups
                /\ peer \notin txmap[txid].outstanding
                /\ RecvResponseFrom(peer, txid, msgtype, content) )
              => LookupView(txmap'[txid]) = LookupView(txmap[txid]) ]_vars

\* C10: closest of a FindNodes transaction is sorted by distance to the
\* target, has at most K entries, and no position of it moves away from the
\* target in any step
C10_ClosestSortedAndMonotone ==
    [][ \A txid \in DOMAIN txmap' :
            txmap'[txid].kind = "FindNodes" =>
                /\ SortedByDistance(txmap'[txid].closest, txmap'[txid].target)
                /\ Len(txmap'[txid].closest) <= K
                /\ txid \in DOMAIN txmap =>
                      \A i \in 1 .. Len(txmap[txid].closest) :
                          /\ i <= Len(txmap'[txid].closest)
                          /\ distance(txmap'[txid].closest[i], txmap[txid].target)
                                <= distance(txmap[txid].closest[i], txmap[txid].target) ]_vars

\* a full closest list from which a queried peer was pushed out by a closer
\* one that a reply named
C10_Witness ==
    \E txid \in DOMAIN txmap :
        /\ txmap[txid].kind = "FindNodes"
        /\ Len(txmap[txid].closest) = K
        /\ \E q \in SeqToSet(txmap[txid].queried) :
              q \notin SeqToSet(txmap[txid].closest)

\* ------------------------------------------------------------------------
\* Properties of splitting
\* ------------------------------------------------------------------------
PrefixOf(node_id, depth) == [i \in 1 .. depth |-> bit_number(node_id, i - 1)]

\* C19: no zone lies deeper than KEY_BITS, and every internal zone at depth
\* B or more is on the path of the local node id
C19_SplitOnlyAlongLocalId ==
    \A e \in ZonesOf(nodetree, <<>>) :
        /\ e.zone.depth <= KEY_BITS
        /\ (~ is_leaf(e.zone) /\ e.zone.depth >= B) =>
              /\ e.path = PrefixOf(nodetree.node_id, e.zone.depth)
              /\ e.zone.prefix = e.path

\* the local subtree was split below B while a full leaf off the local path,
\* at depth B or more, stayed a leaf
C19_Witness ==
    /\ \E e \in ZonesOf(nodetree, <<>>) : ~ is_leaf(e.zone) /\ e.zone.depth >= B
    /\ \E e \in ZonesOf(nodetree, <<>>) :
          /\ is_leaf(e.zone)
          /\ e.zone.depth >= B
          /\ e.zone.depth < KEY_BITS
          /\ remaining(e.zone.routing_bin[1]) = 0
          /\ e.path # PrefixOf(nodetree.node_id, e.zone.depth)

\* C20: _split of any full leaf of the tree gives an internal zone with two
\* leaves one level down that hold the K records between them, each record
\* in the child its bit at the leaf's depth names, none twice
C20_SplitKeepsRecords ==
    \A e \in ZonesOf(nodetree, <<>>) :
        (is_leaf(e.zone) /\ remaining(e.zone.routing_bin[1]) = 0
            /\ e.zone.depth < KEY_BITS) =>
            LET old == e.zone.routing_bin[1].nodes
                new == _split(e.zone)
            IN  /\ ~ is_leaf(new)
                /\ new.routing_bin = <<>>
                /\ \A index \in 1 .. 2 :
                      /\ is_leaf(new.children[index])
                      /\ new.children[index].depth = e.zone.depth + 1
                      /\ NoDuplicates(new.children[index].routing_bin[1].nodes)
                      /\ SeqToSet(new.children[index].routing_bin[1].nodes) =
                            { x \in SeqToSet(old) :
                                  bit_number(x, e.zone.depth) = index - 1 }
                /\ Len(new.children[1].routing_bin[1].nodes)
                      + Len(new.children[2].routing_bin[1].nodes) = K

\* an add has just split a zone, and the tree holds a full leaf that the
\* next add will split
C20_Witness ==
    /\ tree_op.op = "add"
    /\ tree_op.split
    /\ \E e \in ZonesOf(nodetree, <<>>) :
          /\ _can_split(e.zone)
          /\ \E x, y \in SeqToSet(e.zone.routing_bin[1].nodes) :
                bit_number(x, e.zone.depth) # bit_number(y, e.zone.depth)

\* ------------------------------------------------------------------------
\* Properties of the transport
\* ------------------------------------------------------------------------
\* the contents of unpacked fragments joined in the order of the sequence
RECURSIVE JoinContents(_)
JoinContents(parts) ==
    IF parts = <<>> THEN <<>> ELSE Head(parts).content \o JoinContents(Tail(parts))

\* the fragments of the packed message, unpacked one by one
UnpackedFragments ==
    LET fragments == Payload_pack(packed.txid, packed.msgtype, packed.content)
    IN  [i \in 1 .. Len(fragments) |-> Payload_unpack(fragments[i])]

\* C17: the fragments Payload.pack makes of a message carry its txid and
\* msgtype, at most MAX_FRAGMENT content bytes each, and the indices
\* 0 .. lastfrag one after the other, lastfrag being the value every
\* fragment carries; joined in index order their contents are the message
C17_PackUnpackRoundTrip ==
    packed.op = "send_external" =>
        LET parts == UnpackedFragments
        IN  /\ \A i \in 1 .. Len(parts) :
                  /\ ~ parts[i].raised
                  /\ parts[i].txid = packed.txid
                  /\ parts[i].msgtype = packed.msgtype
                  /\ parts[i].fragment = i - 1
                  /\ parts[i].lastfrag = Len(parts) - 1
                  /\ Len(parts[i].content) <= MAX_FRAGMENT
                  /\ parts[i].content_length = Len(parts[i].content)
            /\ JoinContents(parts) = packed.content

\* C16: of a message packed into two or more fragments nothing is passed
\* on while a fragment is still on its way, whatever the order of arrival;
\* once all have arrived the message was passed on once, whole, and the
\* fragment table holds nothing for its txid
C16_ReassemblyOrderIndependent ==
    (packed.op = "send_external" /\ packed.fragments >= 2) =>
        /\ wire # {} => delivered = <<>>
        /\ wire = {} => /\ delivered = <<packed.content>>
                        /\ packed.txid \notin DOMAIN defrag

\* C18: a datagram shorter than the minimum packet, one that fails
\* authentication and one whose header declares more content than follows
\* are dropped: recv_external leaves the tree, the node records, the
\* fragment table, the transactions and the value table as they were and
\* calls no handler
C18_DamagedDatagramDropped ==
    [][(/\ recv_op'.op = "recv_external"
        /\ recv_op'.short \/ recv_op'.unauthentic \/ recv_op'.overlong)
       => /\ recv_op'.outcome = "dropped"
          /\ UNCHANGED <<nodetree, peers, endpoints, defrag, txmap, hashtable>>]_vars

\* C12: once a STOR carrying key and value has been handled, a FVAL for
\* id_for_key(key) is answered with a RVAL whose body is the value
C12_StoredValueIsFetched ==
    \A k \in WireKeys, v \in WireValues :
        (/\ StoreValue_pack_request(k, v) \in stor_handled
         /\ recv_op.op = "recv_external"
         /\ recv_op.msgtype = FVAL
         /\ recv_op.msg = <<id_for_key(k)>>)
        => recv_op.reply = <<RVAL, v>>

\* ------------------------------------------------------------------------
\* Properties of the value table
\* ------------------------------------------------------------------------
\* C13: a value reply (0x08) to a FindValue lookup puts the content into
\* the value table under the lookup's key id with the replying peer as
\* originator and takes the lookup to found, and a found lookup stays found
C13_ValueReplyStoredAndFound ==
    [][/\ \A peer \in EnginePeerIds, txid \in DOMAIN txmap, content \in Values :
             (/\ txmap[txid].kind = "FindValue"
              /\ RecvResponseFrom(peer, txid, RVAL, content))
             => /\ txmap[txid].target \in DOMAIN hashtable'
                /\ hashtable'[txmap[txid].target] = <<peer, content>>
                /\ txmap'[txid].state = "found"
       /\ \A txid \in DOMAIN txmap \cap DOMAIN txmap' :
             (txmap[txid].kind = "FindValue" /\ txmap[txid].state = "found")
             => txmap'[txid].state = "found"]_vars

\* ------------------------------------------------------------------------
\* Properties of the run loop
\* ------------------------------------------------------------------------
\* C15: the assertion of expire_values never fails, and no step removes a
\* value-table entry whose originator is the local node: every entry the
\* sweep finds expired belongs to another node.
C15_LocalEntriesNeverExpire ==
    [][/\ raised' # "AssertionError"
       /\ \A k \in DOMAIN hashtable \ DOMAIN hashtable' :
              hashtable[k][1] # engine_node]_vars

\* a client has asked to publish a value (command STOR)
PublishRequested == \E i \in DOMAIN commands : commands[i] = "STOR"

\* C14: a publish leads to a StoreValue transaction in its terminal state
\* stored: once the STOR command is handled the transaction runs its
\* sub-lookup, sends STOR to the closest nodes and is stored, waiting for no
\* acknowledgement.
C14_StoreValueReachesStored ==
    PublishRequested
    ~> \E txid \in DOMAIN txmap :
          txmap[txid].kind = "StoreValue" /\ txmap[txid].state = "stored"

\* the client commands that have a reply
RepliedCommands ==
    {"NODE", "PEERS", "RESET", "START", "FNOD", "FVAL", "STOR", "REMV", "PUBL", "HASH",
     "NOOP"}

\* the commands handled so far that have a reply, in the order of handling
Awaited == SelectSeq([i \in DOMAIN commands |-> i],
                     LAMBDA i : commands[i] \in RepliedCommands)

\* every reply written so far is the reply of the command the client reads
\* it for, and no command has two
RepliesInOrder ==
    /\ Len(replies) <= Len(Awaited)
    /\ \A n \in DOMAIN replies : replies[n].index = Awaited[n]

\* C11: every client command that has a reply gets exactly one: the replies
\* written are always, in order, those of the commands handled (never a
\* second one for a command), and a handled command's reply is eventually
\* written (never none).
C11_ExactlyOneReply ==
    /\ []RepliesInOrder
    /\ \A i \in 1 .. MaxCommands :
          (i \in DOMAIN commands /\ commands[i] \in RepliedCommands)
          ~> (\E n \in DOMAIN replies : replies[n].index = i)

\* ------------------------------------------------------------------------
\* Properties of consolidation and of the replacement cache
\* ------------------------------------------------------------------------
\* the zone the child indices of path lead to
RECURSIVE ZoneAtPath(_, _)
ZoneAtPath(zone, path) ==
    IF path = <<>> THEN zone
    ELSE ZoneAtPath(zone.children[Head(path) + 1], Tail(path))

\* the step is a call remove(id)
IsRemoveOf(id) ==
    /\ tree_op'.op = "remove"
    /\ nodetree' = remove(nodetree, id).zone

\* the leaves (below the root) that hold id as an active record
LeavesHolding(id) ==
    { e \in ZonesOf(nodetree, <<>>) :
        is_leaf(e.zone) /\ e.path # <<>> /\ id \in SeqToSet(BinNodes(e.zone)) }

ParentPath(path) == SubSeq(path, 1, Len(path) - 1)

\* C21: when remove() takes a record out of a leaf and the records left
\* under the leaf's parent number K/2 or less, the parent is afterwards a
\* leaf at its own depth holding exactly those records; when K/2 + 1 are
\* left the parent stays internal.
C21_ParentCollapsesAtHalf ==
    [][\A id \in PeerIds : IsRemoveOf(id) =>
          \A e \in LeavesHolding(id) :
             LET parent == ZoneAtPath(nodetree, ParentPath(e.path))
                 left == SeqToSet(get_all_nodes(parent)) \ {id}
                 after == ZoneAtPath(nodetree', ParentPath(e.path))
             IN  /\ Cardinality(left) <= K \div 2 =>
                       /\ is_leaf(after)
                       /\ after.depth = parent.depth
                       /\ after.prefix = parent.prefix
                       /\ SeqToSet(BinNodes(after)) = left
                       /\ Len(BinNodes(after)) = Cardinality(left)
                 /\ Cardinality(left) = K \div 2 + 1 => ~ is_leaf(after)]_vars

\* a remove has just collapsed a zone that still holds a record
C21_Witness ==
    /\ tree_op.op = "remove" /\ tree_op.consolidated
    /\ AllRecords(nodetree) # {}

\* C22: after every remove() no internal zone of the tree, whether the
\* parent of the leaf the record left or any zone above it, has a combined
\* population of K/2 or less.
C22_NoSparseInternalZone ==
    [][tree_op'.op = "remove" =>
          \A e \in ZonesOf(nodetree', <<>>) :
             ~ is_leaf(e.zone) => Len(get_all_nodes(e.zone)) > K \div 2]_vars

\* the child indices add(id) follows down to a leaf
RECURSIVE LeafPath(_, _)
LeafPath(zone, id) ==
    IF is_leaf(zone) THEN <<>>
    ELSE <<bit_number(id, zone.depth)>>
         \o LeafPath(zone.children[bit_number(id, zone.depth) + 1], id)

\* the step is a call add(id)
IsAddOf(id) ==
    /\ tree_op'.op = "add"
    /\ nodetree' = add(nodetree, id)

\* the leaf add(id) reaches is full and may not split
Overflows(id) ==
    LET leaf == ZoneAtPath(nodetree, LeafPath(nodetree, id))
    IN  remaining(leaf.routing_bin[1]) = 0 /\ ~ _can_split(leaf)

\* C23: when add() reaches a full leaf that may not split, the leaf's
\* active records are unchanged and the incoming record is afterwards the
\* last (most recent) entry of the leaf's replacement cache, which never
\* holds more than K entries.
C23_OverflowGoesToCache ==
    [][\A id \in PeerIds : (IsAddOf(id) /\ Overflows(id)) =>
          LET path == LeafPath(nodetree, id)
              before == ZoneAtPath(nodetree, path).routing_bin[1]
              after == ZoneAtPath(nodetree', path).routing_bin[1]
          IN  /\ after.nodes = before.nodes
              /\ after.replacements # <<>>
              /\ after.replacements[Len(after.replacements)] = id
              /\ Len(after.replacements) <= K]_vars

\* C24: when remove() takes an active record out of a leaf that holds a
\* cached record (the record the preceding add() was refused with), the
\* cached record is moved into the leaf's active records: the removed id is
\* no longer active, the cached one is, and the active count is unchanged.
C24_CachedRecordPromoted ==
    [][\A id \in PeerIds, cached \in PeerIds :
          (/\ IsRemoveOf(id)
           /\ tree_op.op = "add" /\ cached \in tree_op.refused
           /\ LeafPath(nodetree, cached) = LeafPath(nodetree, id)
           /\ id \in AllRecords(nodetree))
          => /\ id \notin AllRecords(nodetree')
             /\ cached \in AllRecords(nodetree')
             /\ Cardinality(AllRecords(nodetree')) = Cardinality(AllRecords(nodetree))]_vars

\* ------------------------------------------------------------------------
\* Properties of verify_peer
\* ------------------------------------------------------------------------
\* C25: whenever the tree holds a record with the id, verify_peer returns
\* that record, with the address it was called with and its liveness state
\* and counters as they were; only when the tree holds none does it return
\* a new record in state discovered.  No record is added to or taken from
\* the tree, and no other record changes.
C25_VerifyPeerKeepsTree ==
    \A addr \in Addrs, id \in EnginePeerIds :
        LET held == id \in AllRecords(nodetree)
            eps == verify_peer(nodetree, endpoints, addr, id)
            returned == verify_peer_node(nodetree, peers, addr, id)
        IN  /\ returned.node_id = id /\ returned.address = addr
            /\ returned.held = held
            /\ held => eps[id] = addr /\ returned.liveness = peers[id]
            /\ ~ held => eps[id] = endpoints[id] /\ returned.liveness = NewNode
            /\ \A other \in EnginePeerIds \ {id} : eps[other] = endpoints[other]
            /\ { p \in EnginePeerIds : eps[p] # 0 } = { p \in EnginePeerIds : endpoints[p] # 0 }

\* the tree holds the record of a peer at one address while a datagram can
\* come from another, and there is an id the tree has no record of
C25_Witness ==
    /\ \E id \in AllRecords(nodetree) \ {engine_node} :
          endpoints[id] # 0 /\ Addrs \ {endpoints[id]} # {}
    /\ EnginePeerIds \ AllRecords(nodetree) # {}
    /\ recv_op.op # "init"

\* ------------------------------------------------------------------------
\* Properties of the network
\* ------------------------------------------------------------------------
\* the clients of the nodes started with the seed have all asked for target
AllAsked(target) == \A n \in Joiners : target \in net[n].asked

\* every one of them has its reply, the replies are the same list, and the
\* list is in non-decreasing distance to the target
SameSortedReply(target) ==
    /\ \A n \in Joiners : net[n].replies # <<>>
    /\ \A a \in Joiners, b \in Joiners : net[a].replies[1] = net[b].replies[1]
    /\ \A n \in Joiners : SortedByDistance(net[n].replies[1], target)

\* C26: in a network whose nodes were started with the same seed, once the
\* bootstrap neighbour polls are over without loss, a lookup for the same
\* target started at each of the nodes returns the same list of node ids in
\* the same order, non-decreasing in distance to the target, for every
\* target.
C26_LookupsAgree ==
    (\E target \in Ids : AllAsked(target))
    ~> (\E target \in Ids : AllAsked(target) /\ SameSortedReply(target))

\* ------------------------------------------------------------------------
\* Properties of the client commands
\* ------------------------------------------------------------------------
\* the command names recv_api serves itself
ServedCommands == {"START", "STOP", "RESET", "NODE", "PEERS"}

\* the command names a client can send that no service registers
UnregisteredCommands ==
    { c.name : c \in ApiCommands } \ (ServedCommands \cup TransactionCommands)

\* C27: a client command that recv_api does not serve itself and that no
\* service registers is answered with exactly one frame 'Invalid Command';
\* no transaction is created, the tree and the value table stay as they
\* are, and the engine keeps running.
C27_InvalidCommandAnswered ==
    [][\A name \in UnregisteredCommands :
          commands' = Append(commands, name)
          => /\ replies' = Append(replies, [index |-> Len(commands) + 1,
                                            frame |-> "Invalid Command"])
             /\ txmap' = txmap
             /\ nodetree' = nodetree
             /\ hashtable' = hashtable
             /\ running' = running
             /\ raised' = raised]_vars

\* an unregistered command was answered and the command after it served
C27_Witness ==
    \E i \in DOMAIN commands :
        /\ commands[i] \in UnregisteredCommands
        /\ i + 1 \in DOMAIN commands
        /\ commands[i + 1] = "NODE"
        /\ replies = <<[index |-> i, frame |-> "Invalid Command"],
                       [index |-> i + 1, frame |-> "node"]>>
        /\ running \in {"created", "started"}


\* the keys a client asks to unpublish
RemoveKeys == { StoreValue_pack_request(k, v) : k \in WireKeys, v \in WireValues }

\* a step in which recv_api has processed REMV with this key (REMV's frames
\* are not read, so a REMV step is the same for every key)
IsRemvOf(key) == key \in RemoveKeys /\ commands' = Append(commands, "REMV")

\* C28: after the client command REMV with a key the local value table has
\* no entry for id_for_key(key), and the reply written for the command is
\* the empty completion reply, not 'Invalid Command'.
C28_RemvRemovesEntry ==
    [][\A key \in RemoveKeys :
          IsRemvOf(key)
          => /\ id_for_key(key) \notin DOMAIN hashtable'
             /\ replies' = Append(replies, [index |-> Len(commands) + 1,
                                            frame |-> ""])]_vars


\* C29: RESET removes all state: after the command the routing tree holds
\* exactly one record, the new local node, the transaction map and the
\* fragment table are empty, and the local value table is empty.
C29_ResetRemovesAllState ==
    [][commands' = Append(commands, "RESET")
       => /\ AllRecords(nodetree') = {engine_node'}
          /\ txmap' = EmptyMap
          /\ defrag' = EmptyMap
          /\ hashtable' = EmptyMap]_vars


\* ------------------------------------------------------------------------
\* Properties of the scheduled replication
\* ------------------------------------------------------------------------
\* a timer step in which republish_closest has created a StoreValue for the
\* entry of another node stored under key
IsReplicationOf(key) ==
    /\ key \in DOMAIN hashtable
    /\ hashtable[key][1] # engine_node
    /\ republish_own(hashtable, store_time, engine_node, now) = {}
    /\ ticked'
    /\ raised = "none"
    /\ hashtable' = StoreValue_init(hashtable, store_time, engine_node, now,
                                    key, hashtable[key][2]).hashtable
    /\ hashtable' # hashtable

\* no record of the tree is nearer to the key than the local node
LocalIsClosest(key) ==
    \A id \in AllRecords(nodetree) :
        distance(engine_node, NodeIdOf(key)) <= distance(id, NodeIdOf(key))

\* C30: the scheduled replication creates a StoreValue for an entry of
\* another node only if that entry was stored more than closest_refresh
\* seconds ago and the local node is the closest to the entry's key of all
\* the records of its routing tree.
C30_ReplicatesOnlyIfClosest ==
    [][\A key \in DOMAIN hashtable :
          IsReplicationOf(key)
          => /\ now > store_time[key] + closest_refresh
             /\ LocalIsClosest(key)]_vars


\* ------------------------------------------------------------------------
\* Properties of the transaction map
\* ------------------------------------------------------------------------
\* C31: one transaction record per live txid: a transaction that is in the
\* map before and after a step is the same transaction (same class, same
\* target, not younger than before); no create replaces it.
C31_LiveTxNeverReplaced ==
    [][\A txid \in DOMAIN txmap \cap DOMAIN txmap' :
          /\ txmap'[txid].kind = txmap[txid].kind
          /\ txmap'[txid].target = txmap[txid].target
          /\ txmap'[txid].age >= txmap[txid].age]_vars

\* a transaction was created while an older one was live
C31_Witness ==
    \E a, b \in DOMAIN txmap :
        /\ a # b
        /\ txmap[a].age > 0
        /\ txmap[b].age = 0


\* ------------------------------------------------------------------------
\* Properties of the actor handshake
\* ------------------------------------------------------------------------
\* the constructor has returned only if the engine has signalled, and
\* leave() has returned only if the loop has ended and the final signal was
\* sent
NoEarlyReturn ==
    /\ client # "constructing" => running # "spawned"
    /\ client = "left" => running = "exited"

\* C32: the constructor of Network returns only after the engine's first
\* signal and leave() only after the run loop has ended and the final
\* signal was sent; neither returns early, and each of them returns.
C32_HandshakeCompletes ==
    /\ []NoEarlyReturn
    /\ (client = "constructing") ~> (client # "constructing")
    /\ (client = "leaving") ~> (client = "left")


\* ------------------------------------------------------------------------
\* Properties of the lookups and of the node records
\* ------------------------------------------------------------------------
\* C33: a FindNodes lookup that has not terminated is in state waiting
\* response whenever it has outstanding queries and no unqueried candidate
\* left, and it is in state querying only while unqueried candidates remain.
C33_WaitingWhenAllQueried ==
    \A txid \in DOMAIN txmap :
        LET tx == txmap[txid]
        IN  (tx.kind = "FindNodes" /\ ~ is_complete(tx))
            => /\ (tx.outstanding # {} /\ tx.unqueried = <<>>)
                     => tx.state = "waiting response"
               /\ tx.state = "querying" => tx.unqueried # <<>>


\* a step in which a reap sweep has taken records out of the tree
IsReap ==
    /\ nodetree' # nodetree
    /\ nodetree' = reap(nodetree, get_all_nodes(nodetree), peers)

C35_NoPeerQueriedTwice ==
    \A txid \in DOMAIN txmap :
        txmap[txid].kind = "FindNodes" => NoDuplicates(txmap[txid].queried)


\* a step of the timer part of run(): every transaction has aged, none is new
IsTick ==
    /\ txmap # EmptyMap
    /\ DOMAIN txmap' \subseteq DOMAIN txmap
    /\ \A txid \in DOMAIN txmap' : txmap'[txid].age = txmap[txid].age + 1

\* the transaction has a query to the peer that was neither answered nor
\* counted as timed out yet
AwaitsAnswerOf(tx, id) ==
    /\ ~ is_complete(tx)
    /\ IF tx.kind = "Ping" THEN tx.target = id ELSE id \in tx.outstanding

\* C36: a transaction counts at most one timeout against a peer and none
\* against a peer that answered: a timer tick leaves the failure counter
\* and the liveness state of a peer as they are unless a transaction that
\* has not terminated still awaits that peer's answer.
C36_TimeoutCountedOnce ==
    [][IsTick
       => \A id \in AllRecords(nodetree) :
             (\A txid \in DOMAIN txmap : ~ AwaitsAnswerOf(txmap[txid], id))
             => peers'[id] = peers[id]]_vars


\* C37: between resets the local node's own record is always present in
\* its routing tree and is never in state failed.
C37_LocalRecordKept ==
    /\ nodetree.node_id \in AllRecords(nodetree)
    /\ peers[nodetree.node_id].state # "failed"


\* C38: the recorded endpoint of a peer that is in the tree changes only
\* because of a datagram whose sender id is that peer's node_id; what a
\* third party lists in a node reply leaves it as it is.
C38_EndpointFromOwnDatagram ==
    [][\A id \in AllRecords(nodetree) \cap AllRecords(nodetree') :
           endpoints'[id] # endpoints[id]
           => recv_op'.op = "recv_external" /\ recv_op'.peer = id]_vars


\* C39: the state failed is absorbing: a record that is failed and stays in
\* the tree is still failed after every inbound query, inbound response,
\* timeout and sweep; only its removal from the tree ends that.
C39_FailedIsAbsorbing ==
    [][\A id \in AllRecords(nodetree) \cap AllRecords(nodetree') :
           peers[id].state = "failed" => peers'[id].state = "failed"]_vars

\* a failed record that has since been sent a reply to a query of its own
\* (response_out cleared its failure counter) and is still failed
C39_Witness ==
    \E id \in AllRecords(nodetree) :
        peers[id].state = "failed" /\ peers[id].failures = 0


\* the step writes an entry with the local node as originator where there
\* was none or one of another node
BecomesLocal(k) ==
    /\ k \in DOMAIN hashtable'
    /\ hashtable'[k][1] = engine_node
    /\ k \in DOMAIN hashtable => hashtable[k][1] # engine_node

\* C40: an entry of the value table names the local node as originator only
\* if the local client published it with STOR: while the node keeps its
\* identity it was constructed with and no datagram is received, an entry
\* becomes attributed to the local node only in the step that serves a STOR
\* command, never when a scheduled task replicates a value received from a
\* peer.
C40_LocalOriginatorOnlyByStor ==
    [][engine_node = LocalId /\ engine_node' = LocalId /\ recv_op' = recv_op
       => \A k \in DOMAIN hashtable' :
             BecomesLocal(k)
             => /\ commands' # commands
                /\ commands'[Len(commands')] = "STOR"]_vars

====
